---- MODULE Spec2Model ----
(***************************************************************************)
(* Model of ronde's per-command history log (ronde_lib/src/history.rs):    *)
(* CommandHistoryEntry::merge_in, CommandHistory::recreate_tags, rotate,   *)
(* is_new_error and is_back_from_failure; and of one invocation of the     *)
(* program (ronde/src/main.rs) over the whole History: load, purge, update,*)
(* recreate_tags, rotate, rendering, notifications, save.                  *)
(*                                                                         *)
(* A timestamp (chrono DateTime<Utc>) is an integer number of seconds      *)
(* since Mon 29 Jan 2024 00:00:00 UTC, so that the calendar fields chrono  *)
(* derives from it are computed here by integer arithmetic:                *)
(* date_naive = day number, weekday = day number mod 7 with Monday = 0.    *)
(***************************************************************************)
EXTENDS Integers, Sequences, FiniteSets

VARIABLES
    entries,    \* CommandHistory.entries: the log of one command
    before,     \* the log as it was before the last operation
    op,         \* the last operation applied to the log
    ret,        \* the value returned by the last query operation
    history,    \* History.commands of the running invocation
    prev,       \* History.commands before the last step of main
    file,       \* the history file on disk
    file0,      \* the history file as it was when the invocation started
    now,        \* the clock (chrono::Utc::now())
    results,    \* the Vec<CommandResult> the runner produced
    pc,         \* the next step of main, or "idle" / "exit" / "abort"
    trace,      \* the steps of main completed by the running invocation
    err,        \* the error main returned, "none" when there is none
    runs,       \* the number of invocations started so far
    failed_before,  \* the commands that failed in the invocation before
                    \* the running one, when that one ran to its end
    nconfig,        \* config::NotificationConfig
    last_notification,  \* the instant of the last notification for the log
    children,       \* the child processes of the runner: what each will do
    commands,       \* Config.commands as parsed from the configuration file
    notification,   \* send_notification: the title and details as formatted
    form            \* send_notification: the form posted to Pushover

log_vars == <<entries, before, op, ret>>

run_vars == <<history, prev, file, file0, now, results, pc, trace, err, runs,
              failed_before>>

vars == <<entries, before, op, ret,
          history, prev, file, file0, now, results, pc, trace, err, runs,
          failed_before, nconfig, last_notification, children, commands,
          notification, form>>

notify_vars == <<nconfig, last_notification>>

runner_vars == <<children, commands>>

send_vars == <<notification, form>>

----------------------------------------------------------------------------
(* Bounds of the model *)

\* Longest log the initial states are drawn from.
MaxLen == 3

\* Number of invocations of the program a behaviour holds.
MaxRuns == 2

\* The seconds the runner is followed for.
MaxClock == 4

\* A scheduler starts the program every CronPeriod seconds during CronDays
\* days.
CronPeriod == 60

CronDays == 10

----------------------------------------------------------------------------
(* Program constants *)

\* Minute tags are quantized to multiples of 5 (minute() / 5 * 5).
MinuteSlot == 5
\* Hours subtracted from the latest date: TimeDelta::try_hours(25).
DropHours == 25
\* Days subtracted from the latest date: TimeDelta::try_days(7).
DropDays == 7
\* delta.num_hours() < 1 is the Minute tier.
MinuteTierHours == 1
\* delta.num_hours() < 1 + 24 is the Hour tier.
HourTierHours == 24

----------------------------------------------------------------------------
(* Time: chrono accessors on a timestamp in seconds *)

\* The instant `day` days after Mon 29 Jan 2024, at h:m:s UTC.
At(day, h, m, s) == day * 86400 + h * 3600 + m * 60 + s

\* DateTime::date_naive(): the calendar date, as a day number.
date_naive(t) == t \div 86400

\* NaiveDate::weekday().num_days_from_monday(): day 0 is a Monday.
num_days_from_monday(d) == d % 7

\* Timelike::hour() of the time of day.
hour(t) == (t % 86400) \div 3600

\* Timelike::minute() of the time of day.
minute(t) == (t % 3600) \div 60

\* TimeDelta::num_hours(): whole hours, truncated toward zero.
num_hours(delta) ==
    IF delta >= 0 THEN delta \div 3600 ELSE -((-delta) \div 3600)

\* NaiveDate - TimeDelta: only the whole days of the duration are
\* subtracted (the fractional day is discarded, rounding toward zero).
date_sub_hours(d, h) == d - ((h * 3600) \div 86400)

----------------------------------------------------------------------------
(* TimeTag *)

Day(v) == [kind |-> "Day", value |-> v]
Hour(v) == [kind |-> "Hour", value |-> v]
Minute(v) == [kind |-> "Minute", value |-> v]

----------------------------------------------------------------------------
(* CommandHistoryEntry::merge_in *)

\* Mutant: the newer entry always replaces the older one (no stickiness).
merge_in_newest_wins(self, newer) == newer

\* self.merge_in(newer): the value of self afterwards.
merge_in(self, newer) ==
    IF ~newer.result.ok
      THEN [self EXCEPT !.result = newer.result,
                        !.timestamp = newer.timestamp]
      ELSE IF ~self.result.ok
             THEN self
             ELSE newer

----------------------------------------------------------------------------
(* CommandHistory::recreate_tags *)

\* Mutant: the reference instant is an hour after the last entry, as a
\* wall clock read later would be.
latest_timestamp_later(s) == s[Len(s)].timestamp + 3600

\* CommandHistory::latest_timestamp, on a non-empty log.
latest_timestamp(s) == s[Len(s)].timestamp

\* Mutant: the 25 hours are forgotten, only 7 days are subtracted.
last_day_7_days(latest) == date_naive(latest) - DropDays

\* Mutant: the 25 hours are rounded up to 2 days.
last_day_round_up(latest) == date_naive(latest) - 2 - DropDays

\* last_day: the oldest calendar date that is kept.
last_day(latest) ==
    date_sub_hours(date_naive(latest), DropHours) - DropDays

\* Mutant: the tier bounds are inclusive (num_hours() <= 1, <= 1 + 24).
entry_tag_inclusive(t, latest) ==
    LET delta == latest - t IN
    IF num_hours(delta) <= MinuteTierHours
      THEN Minute((minute(t) \div MinuteSlot) * MinuteSlot)
      ELSE IF num_hours(delta) <= MinuteTierHours + HourTierHours
             THEN Hour(hour(t))
             ELSE Day(num_days_from_monday(date_naive(t)))

\* Mutant: the minute is not quantized to its 5-minute slot.
entry_tag_raw_minute(t, latest) ==
    LET delta == latest - t IN
    IF num_hours(delta) < MinuteTierHours
      THEN Minute(minute(t))
      ELSE IF num_hours(delta) < MinuteTierHours + HourTierHours
             THEN Hour(hour(t))
             ELSE Day(num_days_from_monday(date_naive(t)))

\* Mutant: the age is taken from the time of day only, whole days being
\* left out.
entry_tag_time_of_day(t, latest) ==
    LET delta == (latest - t) % 86400 IN
    IF num_hours(delta) < MinuteTierHours
      THEN Minute((minute(t) \div MinuteSlot) * MinuteSlot)
      ELSE IF num_hours(delta) < MinuteTierHours + HourTierHours
             THEN Hour(hour(t))
             ELSE Day(num_days_from_monday(date_naive(t)))

\* The tag the retain_mut closure assigns to an entry of timestamp t.
entry_tag(t, latest) ==
    LET delta == latest - t IN
    IF num_hours(delta) < MinuteTierHours
      THEN Minute((minute(t) \div MinuteSlot) * MinuteSlot)
      ELSE IF num_hours(delta) < MinuteTierHours + HourTierHours
             THEN Hour(hour(t))
             ELSE Day(num_days_from_monday(date_naive(t)))

\* The closure's `return false`: the entry is in the Day tier and its
\* date is earlier than last_day.
entry_dropped(t, latest) ==
    /\ ~(num_hours(latest - t) < MinuteTierHours)
    /\ ~(num_hours(latest - t) < MinuteTierHours + HourTierHours)
    /\ date_naive(t) < last_day(latest)

RECURSIVE retain_mut_quantizing(_, _)
\* Mutant: the closure also rounds the entry's timestamp down to its
\* 5-minute slot.
retain_mut_quantizing(s, latest) ==
    IF s = <<>> THEN <<>>
    ELSE LET e == Head(s) IN
         IF entry_dropped(e.timestamp, latest)
           THEN retain_mut_quantizing(Tail(s), latest)
           ELSE <<[e EXCEPT !.tag = entry_tag(e.timestamp, latest),
                            !.timestamp = (@ \div 300) * 300]>>
                  \o retain_mut_quantizing(Tail(s), latest)

RECURSIVE retain_mut(_, _)
\* Vec::retain_mut with the closure of recreate_tags.
retain_mut(s, latest) ==
    IF s = <<>> THEN <<>>
    ELSE LET e == Head(s) IN
         IF entry_dropped(e.timestamp, latest)
           THEN retain_mut(Tail(s), latest)
           ELSE <<[e EXCEPT !.tag = entry_tag(e.timestamp, latest)]>>
                  \o retain_mut(Tail(s), latest)

RECURSIVE retain_skipping(_, _)
\* Mutant helper: removing in place while iterating by index skips the
\* entry that follows a removed one.
retain_skipping(s, latest) ==
    IF s = <<>> THEN <<>>
    ELSE LET e == Head(s) IN
         IF entry_dropped(e.timestamp, latest)
           THEN IF Tail(s) = <<>> THEN <<>>
                ELSE <<Head(Tail(s))>> \o retain_skipping(Tail(Tail(s)), latest)
           ELSE <<[e EXCEPT !.tag = entry_tag(e.timestamp, latest)]>>
                  \o retain_skipping(Tail(s), latest)

\* Mutant: recreate_tags with the remove-while-iterating slip.
recreate_tags_skipping(s) ==
    IF s = <<>> THEN s ELSE retain_skipping(s, latest_timestamp(s))

\* CommandHistory::recreate_tags: the log afterwards.
recreate_tags(s) ==
    IF s = <<>> THEN s ELSE retain_mut(s, latest_timestamp(s))

----------------------------------------------------------------------------
(* CommandHistory::rotate *)

\* Mutant: the Day arm of the match is missing.
same_bucket_no_day(left, right) ==
    \/ /\ left.kind = "Hour" /\ right.kind = "Hour"
       /\ right.value = left.value
    \/ /\ left.kind = "Minute" /\ right.kind = "Minute"
       /\ right.value = left.value

\* The match of the dedup_by closure on (&left.tag, &right.tag).
same_bucket(left, right) ==
    \/ /\ left.kind = "Day" /\ right.kind = "Day"
       /\ right.value = left.value
    \/ /\ left.kind = "Hour" /\ right.kind = "Hour"
       /\ right.value = left.value
    \/ /\ left.kind = "Minute" /\ right.kind = "Minute"
       /\ right.value = left.value

RECURSIVE dedup_by_grouping(_, _)
\* Mutant: a full grouping, each element being merged into the first
\* retained element with its tag, adjacent or not.
dedup_by_grouping(kept, rest) ==
    IF rest = <<>> THEN kept
    ELSE LET left == Head(rest)
             same == { k \in 1..Len(kept) :
                         same_bucket(left.tag, kept[k].tag) }
         IN IF same # {}
              THEN LET k == CHOOSE k \in same : \A j \in same : k <= j
                   IN dedup_by_grouping(
                          [kept EXCEPT ![k] = merge_in(kept[k], left)],
                          Tail(rest))
              ELSE dedup_by_grouping(Append(kept, left), Tail(rest))

RECURSIVE dedup_by_skipping(_, _)
\* Mutant: after a merge the next element is retained without being
\* compared.
dedup_by_skipping(kept, rest) ==
    IF rest = <<>> THEN kept
    ELSE LET left == Head(rest)
             right == kept[Len(kept)]
         IN IF same_bucket(left.tag, right.tag)
              THEN IF Tail(rest) = <<>>
                     THEN [kept EXCEPT ![Len(kept)] = merge_in(right, left)]
                     ELSE dedup_by_skipping(
                              Append([kept EXCEPT ![Len(kept)] =
                                        merge_in(right, left)],
                                     Head(Tail(rest))),
                              Tail(Tail(rest)))
              ELSE dedup_by_skipping(Append(kept, left), Tail(rest))

RECURSIVE dedup_by(_, _)
\* Vec::dedup_by: each element of rest (the closure's `left`) is compared
\* with the last retained element (the closure's `right`), which merges it
\* in when the closure returns true.
dedup_by(kept, rest) ==
    IF rest = <<>> THEN kept
    ELSE LET left == Head(rest)
             right == kept[Len(kept)]
         IN IF same_bucket(left.tag, right.tag)
              THEN dedup_by([kept EXCEPT ![Len(kept)] = merge_in(right, left)],
                            Tail(rest))
              ELSE dedup_by(Append(kept, left), Tail(rest))

\* CommandHistory::rotate: the log afterwards.
rotate(s) ==
    IF s = <<>> THEN s ELSE dedup_by(<<Head(s)>>, Tail(s))

----------------------------------------------------------------------------
(* Transition queries *)

\* Mutant: the entry before the last is not inspected.
is_new_error_any_previous(s) ==
    /\ Len(s) > 0
    /\ ~s[Len(s)].result.ok

\* Mutant: the single-entry case is forgotten.
is_new_error_needs_previous(s) ==
    /\ Len(s) > 1
    /\ ~s[Len(s)].result.ok
    /\ s[Len(s) - 1].result.ok

\* CommandHistory::is_new_error
is_new_error(s) ==
    IF Len(s) > 0 /\ ~s[Len(s)].result.ok
      THEN IF Len(s) > 1
             THEN s[Len(s) - 1].result.ok
             ELSE TRUE
      ELSE FALSE

\* Mutant: the previous entry is not inspected.
is_back_from_failure_any_previous(s) ==
    /\ Len(s) > 1
    /\ s[Len(s)].result.ok

\* CommandHistory::is_back_from_failure
is_back_from_failure(s) ==
    IF Len(s) > 0 /\ s[Len(s)].result.ok /\ Len(s) > 1
      THEN ~s[Len(s) - 1].result.ok
      ELSE FALSE

----------------------------------------------------------------------------
(* Initial logs *)

\* The instants the initial logs are drawn from: timestamps of the
\* repository's tests (test_recreate_tags, test_recreate_tags_removes_too_old,
\* test_rotate), on both sides of every tier boundary.
TestTimes ==
    { At(0, 23, 41, 22),    \* Mon, 29 Jan 2024 23:41:22
      At(1, 1, 41, 22),     \* Tue, 30 Jan 2024 01:41:22
      At(8, 18, 49, 43),    \* Tue, 06 Feb 2024 18:49:43
      At(8, 18, 49, 44),    \* Tue, 06 Feb 2024 18:49:44
      At(9, 18, 49, 43),    \* Wed, 07 Feb 2024 18:49:43
      At(9, 18, 49, 44),    \* Wed, 07 Feb 2024 18:49:44
      At(9, 18, 57, 55),    \* Wed, 07 Feb 2024 18:57:55
      At(9, 19, 48, 21),    \* Wed, 07 Feb 2024 19:48:21
      At(9, 19, 49, 43) }   \* Wed, 07 Feb 2024 19:49:43

\* Strictly increasing sequences of n instants.
TimeSeqs(n) ==
    { ts \in [1..n -> TestTimes] : \A i \in 1..(n - 1) : ts[i] < ts[i + 1] }

\* A freshly pushed entry, as History::update and the tests build it: the
\* placeholder tag Minute(0); the captured output is identified by the
\* instant of the run (the tests' format!("ok_stdout_{}", d)).
NewEntry(t, ok, cmd) ==
    [result |-> [ok |-> ok, out |-> t],
     timestamp |-> t,
     tag |-> Minute(0),
     command |-> cmd]

\* The log of n entries run at ts, with outcomes oks, whose command text
\* was edited in the configuration after the c-th run.
NewLog(n, ts, oks, c) ==
    [i \in 1..n |-> NewEntry(ts[i], oks[i],
                             IF i <= c THEN "cmd_a" ELSE "cmd_b")]

InitLogs ==
    {<<>>} \cup
    UNION { UNION { UNION { { NewLog(n, ts, oks, c) : c \in 1..n }
                            : oks \in [1..n -> BOOLEAN] }
                    : ts \in TimeSeqs(n) }
            : n \in 1..MaxLen }

----------------------------------------------------------------------------
(* The state machine *)

\* The runner has no child process.
NoChildren == children = <<>> /\ commands = <<>>

\* No notification is being sent.
NoSend ==
    /\ notification = [pushover |-> FALSE, title |-> <<>>, details |-> <<>>]
    /\ form = <<>>

\* NotificationConfig::default(): no notification is configured.
NoNotify ==
    /\ nconfig = [notify_on_success_after_failure |-> FALSE,
                  minutes_between_continuous_failure_notification |-> 0]
    /\ last_notification = 0

\* No invocation of the program is running.
NoRun ==
    /\ history = <<>>
    /\ prev = <<>>
    /\ file = [state |-> "missing", contents |-> <<>>]
    /\ file0 = [state |-> "missing", contents |-> <<>>]
    /\ now = 0
    /\ results = <<>>
    /\ pc = "idle"
    /\ trace = <<>>
    /\ err = "none"
    /\ runs = 0
    /\ failed_before = {}

Init ==
    /\ entries \in InitLogs
    /\ before = entries
    /\ op = "new"
    /\ ret = FALSE
    /\ NoRun
    /\ NoNotify
    /\ NoChildren
    /\ NoSend

RecreateTags ==
    /\ entries' = recreate_tags(entries)
    /\ before' = entries
    /\ op' = "recreate_tags"
    /\ ret' = FALSE
    /\ UNCHANGED run_vars
    /\ UNCHANGED notify_vars
    /\ UNCHANGED runner_vars
    /\ UNCHANGED send_vars

Rotate ==
    /\ entries' = rotate(entries)
    /\ before' = entries
    /\ op' = "rotate"
    /\ ret' = FALSE
    /\ UNCHANGED run_vars
    /\ UNCHANGED notify_vars
    /\ UNCHANGED runner_vars
    /\ UNCHANGED send_vars

IsNewError ==
    /\ ret' = is_new_error(entries)
    /\ op' = "is_new_error"
    /\ UNCHANGED <<entries, before>>
    /\ UNCHANGED run_vars
    /\ UNCHANGED notify_vars
    /\ UNCHANGED runner_vars
    /\ UNCHANGED send_vars

IsBackFromFailure ==
    /\ ret' = is_back_from_failure(entries)
    /\ op' = "is_back_from_failure"
    /\ UNCHANGED <<entries, before>>
    /\ UNCHANGED run_vars
    /\ UNCHANGED notify_vars
    /\ UNCHANGED runner_vars
    /\ UNCHANGED send_vars

Next ==
    \/ RecreateTags
    \/ Rotate
    \/ IsNewError
    \/ IsBackFromFailure

Spec == Init /\ [][Next]_vars

----------------------------------------------------------------------------
(* Configuration and runner results *)

\* config::CommandConfig: the fields main and History::update read.
CommandConfig(name, run, timeout) ==
    [name |-> name, run |-> run, timeout |-> timeout]

\* The configurations an invocation is started with: command names are
\* unique (Config::load checks it); from one to the other commands are
\* added, removed and reordered, and the text of "p1" is edited.
Configs ==
    { <<CommandConfig("p1", "cmd_a", 5)>>,
      <<CommandConfig("p2", "cmd_b", 10), CommandConfig("p1", "cmd_b", 5)>>,
      <<CommandConfig("p1", "cmd_b", 5), CommandConfig("p3", "cmd_c", 60),
        CommandConfig("p2", "cmd_b", 10)>> }

\* Result<CommandOutput, CommandError> values execute_command can return
\* for a command run at instant t. The captured output is identified by the
\* instant of the run; the exit code of a ReturnedError is an Option<i32>,
\* <<>> when the process was killed by a signal.
RunnerResults(config, t) ==
    IF config.name = "p1"
      THEN { [kind |-> "Ok", exit |-> 0, out |-> t],
             [kind |-> "ReturnedError", code |-> <<1>>, out |-> t],
             [kind |-> "ReturnedError", code |-> <<>>, out |-> t],
             [kind |-> "TimedOut"] }
      ELSE IF config.name = "p2"
        THEN { [kind |-> "Ok", exit |-> 0, out |-> t],
               [kind |-> "Command", message |-> "No such file or directory"] }
        ELSE { [kind |-> "Ok", exit |-> 0, out |-> t] }

\* The Vec<CommandResult> values join_all can yield for a configuration:
\* one CommandResult per command, in configuration order.
RunnerOutputs(config, t) ==
    { rs \in [1..Len(config) -> UNION { { [config |-> config[i], result |-> r]
                                          : r \in RunnerResults(config[i], t) }
                                        : i \in 1..Len(config) }]
        : \A i \in 1..Len(config) : rs[i].config = config[i] }

\* The names of the commands whose result is an error.
Failing(rs) ==
    { rs[i].config.name : i \in { k \in 1..Len(rs) : rs[k].result.kind # "Ok" } }

\* The names of the commands whose result is a success.
Succeeding(rs) ==
    { rs[i].config.name : i \in { k \in 1..Len(rs) : rs[k].result.kind = "Ok" } }

----------------------------------------------------------------------------
(* Summary *)

\* Summary::from_results: the numbers of successful and of failed commands
\* of a run.
from_results(rs) ==
    [nb_ok |-> Cardinality({ i \in 1..Len(rs) : rs[i].result.kind = "Ok" }),
     nb_err |-> Cardinality({ i \in 1..Len(rs) : rs[i].result.kind # "Ok" })]

\* History::get_summary_from_latest: the numbers of logs whose last entry
\* is a success and whose last entry is a failure; a log without entry is
\* not counted.
get_summary_from_latest(h) ==
    LET last(i) == h[i].entries[Len(h[i].entries)]
        counted == { i \in 1..Len(h) : h[i].entries # <<>> }
    IN [nb_ok |-> Cardinality({ i \in counted : last(i).result.ok }),
        nb_err |-> Cardinality({ i \in counted : ~last(i).result.ok })]

----------------------------------------------------------------------------
(* History::purge_from_results, History::update *)

\* Mutant: nothing is purged.
purge_from_results_keeps_all(h, rs) == h

\* Mutant: the test of the retain is inverted.
purge_from_results_inverted(h, rs) ==
    LET keep(c) == ~(\E i \in 1..Len(rs) : rs[i].config.name = c.name)
    IN SelectSeq(h, keep)

\* History::purge_from_results: History.commands afterwards.
purge_from_results(h, rs) ==
    LET keep(c) == \E i \in 1..Len(rs) : rs[i].config.name = c.name
    IN SelectSeq(h, keep)

\* Mutant: a missing exit code is recorded as 0, and a timeout without the
\* configured timeout.
history_result_lossy(r) ==
    IF r.result.kind = "Ok"
      THEN [ok |-> TRUE, exit |-> r.result.exit, out |-> r.result.out]
      ELSE IF r.result.kind = "ReturnedError"
        THEN [ok |-> FALSE, error |-> "CommandError",
              exit |-> IF r.result.code = <<>> THEN 0 ELSE r.result.code[1],
              out |-> r.result.out]
        ELSE IF r.result.kind = "TimedOut"
          THEN [ok |-> FALSE, error |-> "Timeout", timeout |-> 0]
          ELSE [ok |-> FALSE, error |-> "Other",
                message |-> <<"Command error: ", r.result.message>>]

\* The match of update on result.result: the Result<CommandOutput,
\* HistoryItemError> that is recorded.
history_result(r) ==
    IF r.result.kind = "Ok"
      THEN [ok |-> TRUE, exit |-> r.result.exit, out |-> r.result.out]
      ELSE IF r.result.kind = "ReturnedError"
        THEN [ok |-> FALSE, error |-> "CommandError",
              exit |-> IF r.result.code = <<>> THEN -1 ELSE r.result.code[1],
              out |-> r.result.out]
        ELSE IF r.result.kind = "TimedOut"
          THEN [ok |-> FALSE, error |-> "Timeout",
                timeout |-> r.config.timeout]
          ELSE [ok |-> FALSE, error |-> "Other",
                message |-> <<"Command error: ", r.result.message>>]

\* The CommandHistoryEntry update builds for a result at instant t.
history_entry(r, t) ==
    [result |-> history_result(r),
     timestamp |-> t,
     tag |-> Minute(0),
     command |-> r.config.run]

\* Mutant: the entry is inserted at the front of the log.
update_one_push_front(h, r, t) ==
    IF \E i \in 1..Len(h) : h[i].name = r.config.name
      THEN LET i == CHOOSE i \in 1..Len(h) :
                      /\ h[i].name = r.config.name
                      /\ \A j \in 1..(i - 1) : h[j].name # r.config.name
           IN [h EXCEPT ![i].entries = <<history_entry(r, t)>> \o @]
      ELSE Append(h, [name |-> r.config.name,
                      entries |-> <<history_entry(r, t)>>])

\* Mutant: a new log is inserted before the existing ones.
update_one_prepend(h, r, t) ==
    IF \E i \in 1..Len(h) : h[i].name = r.config.name
      THEN LET i == CHOOSE i \in 1..Len(h) :
                      /\ h[i].name = r.config.name
                      /\ \A j \in 1..(i - 1) : h[j].name # r.config.name
           IN [h EXCEPT ![i].entries = Append(@, history_entry(r, t))]
      ELSE <<[name |-> r.config.name, entries |-> <<history_entry(r, t)>>]>>
             \o h

\* The body of update's loop for one result: find the first log of that
\* name and push the entry, or push a new log.
update_one(h, r, t) ==
    IF \E i \in 1..Len(h) : h[i].name = r.config.name
      THEN LET i == CHOOSE i \in 1..Len(h) :
                      /\ h[i].name = r.config.name
                      /\ \A j \in 1..(i - 1) : h[j].name # r.config.name
           IN [h EXCEPT ![i].entries = Append(@, history_entry(r, t))]
      ELSE Append(h, [name |-> r.config.name,
                      entries |-> <<history_entry(r, t)>>])

RECURSIVE update(_, _, _)
\* History::update: History.commands afterwards.
update(h, rs, t) ==
    IF rs = <<>> THEN h
    ELSE update(update_one(h, Head(rs), t), Tail(rs), t)

\* History::recreate_tags
history_recreate_tags(h) ==
    [i \in 1..Len(h) |-> [h[i] EXCEPT !.entries = recreate_tags(@)]]

\* Mutant: the logs are not rotated.
history_rotate_skipped(h) ==
    h

\* History::rotate
history_rotate(h) ==
    [i \in 1..Len(h) |-> [h[i] EXCEPT !.entries = rotate(@)]]

----------------------------------------------------------------------------
(* History::load, History::save *)

\* serde_yaml form of a result (singleton_map_recursive): a one-key mapping
\* from the variant name to its fields.
result_to_yaml(r) ==
    IF r.ok
      THEN <<"Ok", <<r.exit, r.out>>>>
      ELSE IF r.error = "CommandError"
        THEN <<"Err", <<"CommandError", r.exit, r.out>>>>
        ELSE IF r.error = "Timeout"
          THEN <<"Err", <<"Timeout", r.timeout>>>>
          ELSE <<"Err", <<"Other", r.message>>>>

result_from_yaml(y) ==
    IF y[1] = "Ok"
      THEN [ok |-> TRUE, exit |-> y[2][1], out |-> y[2][2]]
      ELSE IF y[2][1] = "CommandError"
        THEN [ok |-> FALSE, error |-> "CommandError",
              exit |-> y[2][2], out |-> y[2][3]]
        ELSE IF y[2][1] = "Timeout"
          THEN [ok |-> FALSE, error |-> "Timeout", timeout |-> y[2][2]]
          ELSE [ok |-> FALSE, error |-> "Other", message |-> y[2][2]]

\* serde_yaml::to_string(self): the document of a History.
to_string(h) ==
    [i \in 1..Len(h) |->
        <<h[i].name,
          [k \in 1..Len(h[i].entries) |->
              LET e == h[i].entries[k]
              IN <<result_to_yaml(e.result), e.timestamp,
                   <<e.tag.kind, e.tag.value>>, e.command>>]>>]

\* Mutant: the command text is not read back (#[serde(default)] applies).
from_str_default_command(doc) ==
    [i \in 1..Len(doc) |->
        [name |-> doc[i][1],
         entries |-> [k \in 1..Len(doc[i][2]) |->
              LET y == doc[i][2][k]
              IN [result |-> result_from_yaml(y[1]),
                  timestamp |-> y[2],
                  tag |-> [kind |-> y[3][1], value |-> y[3][2]],
                  command |-> ""]]]]

\* serde_yaml::from_str(&contents) on a well-formed document.
from_str(doc) ==
    [i \in 1..Len(doc) |->
        [name |-> doc[i][1],
         entries |-> [k \in 1..Len(doc[i][2]) |->
              LET y == doc[i][2][k]
              IN [result |-> result_from_yaml(y[1]),
                  timestamp |-> y[2],
                  tag |-> [kind |-> y[3][1], value |-> y[3][2]],
                  command |-> y[4]]]]]

\* The history file: absent, present but unreadable, present with contents
\* that are no History document, or present with a document.
MissingFile == [state |-> "missing", contents |-> <<>>]
UnreadableFile == [state |-> "unreadable", contents |-> <<>>]
MalformedFile == [state |-> "malformed", contents |-> <<>>]
SavedFile(doc) == [state |-> "document", contents |-> doc]

\* Mutant: every read error yields an empty history.
load_lenient(f) ==
    IF f.state = "document"
      THEN [ok |-> TRUE, history |-> from_str(f.contents), error |-> "none"]
      ELSE IF f.state = "malformed"
        THEN [ok |-> FALSE, history |-> <<>>, error |-> "SerdeError"]
        ELSE [ok |-> TRUE, history |-> <<>>, error |-> "none"]

\* History::load: Ok(history) or Err(error).
load(f) ==
    IF f.state = "document"
      THEN [ok |-> TRUE, history |-> from_str(f.contents), error |-> "none"]
      ELSE IF f.state = "malformed"
        THEN [ok |-> FALSE, history |-> <<>>, error |-> "SerdeError"]
        ELSE IF f.state = "missing"
          THEN [ok |-> TRUE, history |-> <<>>, error |-> "none"]
          ELSE [ok |-> FALSE, history |-> <<>>, error |-> "IoError"]

----------------------------------------------------------------------------
(* main: one invocation of the program *)

\* The instants between two invocations: 82 seconds (19:48:21 and
\* 19:49:43 of test_rotate, one 5-minute slot) and one hour.
Steps == { 82, 3600 }

\* The instant before the first invocation: Wed, 07 Feb 2024 18:49:43.
StartTime == At(9, 18, 49, 43)

\* Mutant: the history is saved before the output files are rendered.
main_steps_save_early ==
    << "load", "purge_from_results", "update", "recreate_tags", "rotate",
       "save", "generate_files", "check_and_send_notifications" >>

\* Mutant: rotate is called before recreate_tags.
main_steps_rotate_first ==
    << "load", "purge_from_results", "update", "rotate", "recreate_tags",
       "generate_files", "check_and_send_notifications", "save" >>

\* The calls of main on the history, in program order.
main_steps ==
    << "load", "purge_from_results", "update", "recreate_tags", "rotate",
       "generate_files", "check_and_send_notifications", "save" >>

\* The step main runs after step s, "exit" after the last one.
step_after(s) ==
    LET i == CHOOSE i \in 1..Len(main_steps) : main_steps[i] = s
    IN IF i = Len(main_steps) THEN "exit" ELSE main_steps[i + 1]

\* Step s returns Ok: main goes on to the next step.
Done(s) ==
    /\ pc = s
    /\ pc' = step_after(s)
    /\ trace' = Append(trace, s)
    /\ err' = "none"

\* Step s returns Err(e): the `?` makes main return it.
Failed(s, e) ==
    /\ pc = s
    /\ pc' = "abort"
    /\ trace' = trace
    /\ err' = e

\* The program is started: Config::load, then join_all runs the commands.
Execute ==
    /\ pc \in {"idle", "exit", "abort"}
    /\ runs < MaxRuns
    /\ \E step \in Steps, config \in Configs :
         /\ now' = now + step
         /\ results' \in RunnerOutputs(config, now + step)
    /\ runs' = runs + 1
    /\ pc' = main_steps[1]
    /\ trace' = <<>>
    /\ err' = "none"
    /\ file0' = file
    /\ history' = <<>>
    /\ prev' = <<>>
    /\ failed_before' = IF pc = "exit" THEN Failing(results) ELSE {}
    /\ UNCHANGED <<file>>
    /\ UNCHANGED log_vars
    /\ UNCHANGED notify_vars
    /\ UNCHANGED runner_vars
    /\ UNCHANGED send_vars

\* let mut history = History::load(&config.history_file).await?;
Load ==
    /\ pc = "load"
    /\ LET r == load(file)
       IN IF r.ok
            THEN /\ Done("load")
                 /\ history' = r.history
            ELSE /\ Failed("load", r.error)
                 /\ history' = history
    /\ prev' = history
    /\ UNCHANGED <<file, file0, now, results, runs, failed_before>>
    /\ UNCHANGED log_vars
    /\ UNCHANGED notify_vars
    /\ UNCHANGED runner_vars
    /\ UNCHANGED send_vars

\* history.purge_from_results(&results);
Purge ==
    /\ Done("purge_from_results")
    /\ history' = purge_from_results(history, results)
    /\ prev' = history
    /\ UNCHANGED <<file, file0, now, results, runs, failed_before>>
    /\ UNCHANGED log_vars
    /\ UNCHANGED notify_vars
    /\ UNCHANGED runner_vars
    /\ UNCHANGED send_vars

\* history.update(results);
Update ==
    /\ Done("update")
    /\ history' = update(history, results, now)
    /\ prev' = history
    /\ UNCHANGED <<file, file0, now, results, runs, failed_before>>
    /\ UNCHANGED log_vars
    /\ UNCHANGED notify_vars
    /\ UNCHANGED runner_vars
    /\ UNCHANGED send_vars

\* history.recreate_tags();
MainRecreateTags ==
    /\ Done("recreate_tags")
    /\ history' = history_recreate_tags(history)
    /\ prev' = history
    /\ UNCHANGED <<file, file0, now, results, runs, failed_before>>
    /\ UNCHANGED log_vars
    /\ UNCHANGED notify_vars
    /\ UNCHANGED runner_vars
    /\ UNCHANGED send_vars

\* history.rotate();
MainRotate ==
    /\ Done("rotate")
    /\ history' = history_rotate(history)
    /\ prev' = history
    /\ UNCHANGED <<file, file0, now, results, runs, failed_before>>
    /\ UNCHANGED log_vars
    /\ UNCHANGED notify_vars
    /\ UNCHANGED runner_vars
    /\ UNCHANGED send_vars

\* html::generate_json_files(..).await?; generate_auxiliary_files(..).await?;
\* the files are written.
Render ==
    /\ Done("generate_files")
    /\ UNCHANGED <<history, prev, file, file0, now, results, runs, failed_before>>
    /\ UNCHANGED log_vars
    /\ UNCHANGED notify_vars
    /\ UNCHANGED runner_vars
    /\ UNCHANGED send_vars

\* Writing an output file fails.
RenderFails ==
    /\ Failed("generate_files", "HtmlError")
    /\ UNCHANGED <<history, prev, file, file0, now, results, runs, failed_before>>
    /\ UNCHANGED log_vars
    /\ UNCHANGED notify_vars
    /\ UNCHANGED runner_vars
    /\ UNCHANGED send_vars

\* check_and_send_notifications(nconfig, &history).await?; every
\* notification is sent, or none is configured.
Notify ==
    /\ Done("check_and_send_notifications")
    /\ UNCHANGED <<history, prev, file, file0, now, results, runs, failed_before>>
    /\ UNCHANGED log_vars
    /\ UNCHANGED notify_vars
    /\ UNCHANGED runner_vars
    /\ UNCHANGED send_vars

\* Sending a notification fails (the request fails or is refused).
NotifyFails ==
    /\ Failed("check_and_send_notifications", "NotificationError")
    /\ UNCHANGED <<history, prev, file, file0, now, results, runs, failed_before>>
    /\ UNCHANGED log_vars
    /\ UNCHANGED notify_vars
    /\ UNCHANGED runner_vars
    /\ UNCHANGED send_vars

\* history.save(&config.history_file).await?; the file is overwritten.
Save ==
    /\ Done("save")
    /\ file' = SavedFile(to_string(history))
    /\ UNCHANGED <<history, prev, file0, now, results, runs, failed_before>>
    /\ UNCHANGED log_vars
    /\ UNCHANGED notify_vars
    /\ UNCHANGED runner_vars
    /\ UNCHANGED send_vars

\* fs::write fails: the file is as it was, or is left partly written.
SaveFails ==
    /\ Failed("save", "IoError")
    /\ file' \in {file, MalformedFile}
    /\ UNCHANGED <<history, prev, file0, now, results, runs, failed_before>>
    /\ UNCHANGED log_vars
    /\ UNCHANGED notify_vars
    /\ UNCHANGED runner_vars
    /\ UNCHANGED send_vars

\* No operation on a single log is in progress.
NoLogOp ==
    /\ entries = <<>>
    /\ before = <<>>
    /\ op = "new"
    /\ ret = FALSE

\* One whole invocation at instant t on the history file f: the history
\* that main saves when every step succeeds.
invocation(f, rs, t) ==
    history_rotate(
        history_recreate_tags(
            update(purge_from_results(load(f).history, rs), rs, t)))

\* The history file the first invocation finds: none, one that cannot be
\* read or parsed, or the one an earlier invocation at StartTime wrote,
\* starting without a file, when the configuration held one command.
InitFiles ==
    { MissingFile, UnreadableFile, MalformedFile } \cup
      { SavedFile(to_string(invocation(MissingFile, rs, StartTime)))
        : rs \in RunnerOutputs(<<CommandConfig("p1", "cmd_a", 5)>>,
                               StartTime) }

InitRun ==
    /\ NoLogOp
    /\ history = <<>>
    /\ prev = <<>>
    /\ file \in InitFiles
    /\ file0 = file
    /\ now = StartTime
    /\ results = <<>>
    /\ pc = "idle"
    /\ trace = <<>>
    /\ err = "none"
    /\ runs = 0
    /\ failed_before = {}
    /\ NoNotify
    /\ NoChildren
    /\ NoSend

NextRun ==
    \/ Execute
    \/ Load
    \/ Purge
    \/ Update
    \/ MainRecreateTags
    \/ MainRotate
    \/ Render
    \/ RenderFails
    \/ Notify
    \/ NotifyFails
    \/ Save
    \/ SaveFails

SpecRun == InitRun /\ [][NextRun]_vars

----------------------------------------------------------------------------
(* The program started periodically, every invocation running to its end *)

\* The results of an invocation at instant t: one command, which succeeds.
CronResults(t) ==
    << [config |-> CommandConfig("p1", "cmd_a", 5),
        result |-> [kind |-> "Ok", exit |-> 0, out |-> t]] >>

\* The scheduler starts the program, and every step of main succeeds.
CronInvocation ==
    /\ pc \in {"idle", "exit"}
    /\ now + CronPeriod <= StartTime + At(CronDays, 0, 0, 0)
    /\ now' = now + CronPeriod
    /\ results' = CronResults(now')
    /\ load(file).ok
    /\ history' = invocation(file, results', now')
    /\ prev' = load(file).history
    /\ file0' = file
    /\ file' = SavedFile(to_string(history'))
    /\ pc' = "exit"
    /\ trace' = main_steps
    /\ err' = "none"
    /\ runs' = runs + 1
    /\ failed_before' = IF pc = "exit" THEN Failing(results) ELSE {}
    /\ UNCHANGED log_vars
    /\ UNCHANGED notify_vars
    /\ UNCHANGED runner_vars
    /\ UNCHANGED send_vars

InitCron ==
    /\ NoLogOp
    /\ history = <<>>
    /\ prev = <<>>
    /\ file = MissingFile
    /\ file0 = file
    /\ now = StartTime
    /\ results = <<>>
    /\ pc = "idle"
    /\ trace = <<>>
    /\ err = "none"
    /\ runs = 0
    /\ failed_before = {}
    /\ NoNotify
    /\ NoChildren
    /\ NoSend

NextCron == CronInvocation

SpecCron == InitCron /\ [][NextCron]_vars

----------------------------------------------------------------------------
(* History::update applied to a history and the results of a run *)

\* The configurations the history at hand was written with: those of
\* Configs, and one with a command that has been removed since.
OldConfigs ==
    Configs \cup
      { <<CommandConfig("p4", "cmd_d", 5), CommandConfig("p1", "cmd_a", 5)>> }

\* The histories update is applied to: the empty one, and those one
\* invocation at StartTime leaves.
InitHistories ==
    { <<>> } \cup
      UNION { { invocation(MissingFile, rs, StartTime)
                : rs \in RunnerOutputs(config, StartTime) }
              : config \in OldConfigs }

InitUpdate ==
    /\ NoLogOp
    /\ history \in InitHistories
    /\ prev = history
    /\ file = MissingFile
    /\ file0 = file
    /\ now \in { StartTime + step : step \in Steps }
    /\ results \in UNION { RunnerOutputs(config, now) : config \in Configs }
    /\ pc = "update"
    /\ trace = <<>>
    /\ err = "none"
    /\ runs = 0
    /\ failed_before = {}
    /\ NoNotify
    /\ NoChildren
    /\ NoSend

NextUpdate == Update

SpecUpdate == InitUpdate /\ [][NextUpdate]_vars

----------------------------------------------------------------------------
(* Config::load: the configuration file has been read and parsed into
   commands; what is left is the check of the command names. *)

\* The names and command lines of the configured commands.
CommandNames == {"p1", "p2", "p3"}

CommandRuns == {"cmd_a", "cmd_b"}

\* The lists of commands a configuration file can hold.
ParsedCommands ==
    UNION { [1..n -> { CommandConfig(name, run, 60) :
                         name \in CommandNames, run \in CommandRuns }] :
            n \in 0..MaxLen }

\* Mutant: a name is compared with the name of the previous command only.
RECURSIVE check_unique_command_names_adjacent(_, _, _)
check_unique_command_names_adjacent(cmds, i, names) ==
    IF i > Len(cmds)
      THEN [ok |-> TRUE, cmd |-> ""]
      ELSE IF cmds[i].name \in names
             THEN [ok |-> FALSE, cmd |-> cmds[i].name]
             ELSE check_unique_command_names_adjacent(cmds, i + 1,
                                                      {cmds[i].name})

\* Config::check_unique_command_names: the loop over the commands from
\* command i on, names being the HashSet of the names seen so far. The
\* error is NotUniqueCommandName { cmd }.
RECURSIVE check_unique_command_names(_, _, _)
check_unique_command_names(cmds, i, names) ==
    IF i > Len(cmds)
      THEN [ok |-> TRUE, cmd |-> ""]
      ELSE IF cmds[i].name \in names
             THEN [ok |-> FALSE, cmd |-> cmds[i].name]
             ELSE check_unique_command_names(cmds, i + 1,
                                             names \cup {cmds[i].name})

\* Config::load after the file has been read and parsed: the check, then
\* Ok(config) or the check's error.
ConfigLoad ==
    /\ pc = "Config::load"
    /\ ret' = check_unique_command_names(commands, 1, {})
    /\ pc' = IF ret'.ok THEN "Ok" ELSE "Err"
    /\ err' = IF ret'.ok THEN "none" ELSE "NotUniqueCommandName"
    /\ UNCHANGED <<entries, before, op>>
    /\ UNCHANGED <<history, prev, file, file0, now, results, trace, runs,
                   failed_before>>
    /\ UNCHANGED notify_vars
    /\ UNCHANGED runner_vars
    /\ UNCHANGED send_vars

InitConfig ==
    /\ entries = <<>>
    /\ before = <<>>
    /\ op = "new"
    /\ ret = [ok |-> TRUE, cmd |-> ""]
    /\ NoNotify
    /\ children = <<>>
    /\ commands \in ParsedCommands
    /\ NoSend
    /\ history = <<>>
    /\ prev = <<>>
    /\ file = MissingFile
    /\ file0 = file
    /\ now = StartTime
    /\ results = <<>>
    /\ pc = "Config::load"
    /\ trace = <<>>
    /\ err = "none"
    /\ runs = 0
    /\ failed_before = {}

NextConfig == ConfigLoad

SpecConfig == InitConfig /\ [][NextConfig]_vars

----------------------------------------------------------------------------
(* The runner: join_all over execute_command. In this specification now
   is the number of seconds since join_all was called, pc holds the state
   of each future and results the slot of each future's CommandResult. *)

\* The configurations the runner is given, with timeouts of 1, 2 and 3
\* seconds.
RunnerConfigs ==
    { <<CommandConfig("p1", "cmd_a", 1)>>,
      <<CommandConfig("p2", "cmd_b", 2), CommandConfig("p1", "cmd_b", 1)>>,
      <<CommandConfig("p1", "cmd_b", 1), CommandConfig("p3", "cmd_c", 3),
        CommandConfig("p2", "cmd_b", 2)>> }

\* What `sh -c run` can do: not start; exit with status 0 at once or
\* after 2 seconds, with status 1 after 1 second, or without a code
\* (killed by a signal); fail to be waited for; never exit.
ChildBehaviours ==
    { [kind |-> "spawn_error", code |-> <<>>, after |-> 0],
      [kind |-> "exit", code |-> <<0>>, after |-> 0],
      [kind |-> "exit", code |-> <<0>>, after |-> 2],
      [kind |-> "exit", code |-> <<1>>, after |-> 1],
      [kind |-> "exit", code |-> <<>>, after |-> 0],
      [kind |-> "wait_error", code |-> <<>>, after |-> 0],
      [kind |-> "hang", code |-> <<>>, after |-> 0] }

\* Mutant: the timer of tokio::time::timeout never fires.
deadline_elapsed_never(config, t) ==
    FALSE

\* tokio::time::timeout(Duration::from_secs(config.timeout.0), ..): the
\* deadline has passed t seconds after the start.
deadline_elapsed(config, t) ==
    t >= config.timeout

\* The child has ended t seconds after the start.
child_ended(child, t) ==
    /\ child.kind \in {"exit", "wait_error"}
    /\ t >= child.after

\* The match on the output of child.wait_with_output(): the Result of the
\* CommandResult for a child that ended at t.
wait_result(child, t) ==
    IF child.kind = "exit"
      THEN IF child.code = <<0>>
             THEN [kind |-> "Ok", exit |-> 0, out |-> t]
             ELSE [kind |-> "ReturnedError", code |-> child.code, out |-> t]
      ELSE [kind |-> "Command", message |-> "wait failed"]

\* The future of command i is polled for the first time: cmd.spawn().
Spawn(i) ==
    /\ pc[i] = "spawn"
    /\ IF children[i].kind = "spawn_error"
         THEN /\ results' = [results EXCEPT ![i].result =
                                [kind |-> "Command",
                                 message |-> "No such file or directory"]]
              /\ pc' = [pc EXCEPT ![i] = "done"]
         ELSE /\ results' = results
              /\ pc' = [pc EXCEPT ![i] = "running"]
    /\ UNCHANGED <<history, prev, file, file0, now, trace, err, runs,
                   failed_before>>
    /\ UNCHANGED log_vars
    /\ UNCHANGED notify_vars
    /\ UNCHANGED runner_vars
    /\ UNCHANGED send_vars

\* child.wait_with_output() of command i is ready.
ChildEnds(i) ==
    /\ pc[i] = "running"
    /\ child_ended(children[i], now)
    /\ results' = [results EXCEPT ![i].result = wait_result(children[i], now)]
    /\ pc' = [pc EXCEPT ![i] = "done"]
    /\ UNCHANGED <<history, prev, file, file0, now, trace, err, runs,
                   failed_before>>
    /\ UNCHANGED log_vars
    /\ UNCHANGED notify_vars
    /\ UNCHANGED runner_vars
    /\ UNCHANGED send_vars

\* The timeout of command i elapses first: Err(Elapsed), and the child is
\* dropped, which kills it.
TimerFires(i) ==
    /\ pc[i] = "running"
    /\ deadline_elapsed(results[i].config, now)
    /\ results' = [results EXCEPT ![i].result = [kind |-> "TimedOut"]]
    /\ pc' = [pc EXCEPT ![i] = "done"]
    /\ UNCHANGED <<history, prev, file, file0, now, trace, err, runs,
                   failed_before>>
    /\ UNCHANGED log_vars
    /\ UNCHANGED notify_vars
    /\ UNCHANGED runner_vars
    /\ UNCHANGED send_vars

\* A second passes: every future has been polled, and no future that is
\* ready is left waiting.
Tick ==
    /\ now < MaxClock
    /\ \A i \in DOMAIN pc : pc[i] # "spawn"
    /\ \E i \in DOMAIN pc : pc[i] = "running"
    /\ \A i \in DOMAIN pc :
         pc[i] = "running" =>
            /\ ~child_ended(children[i], now)
            /\ ~deadline_elapsed(results[i].config, now)
    /\ now' = now + 1
    /\ UNCHANGED <<history, prev, file, file0, results, pc, trace, err, runs,
                   failed_before>>
    /\ UNCHANGED log_vars
    /\ UNCHANGED notify_vars
    /\ UNCHANGED runner_vars
    /\ UNCHANGED send_vars

InitRunner ==
    /\ NoLogOp
    /\ NoNotify
    /\ NoSend
    /\ \E config \in RunnerConfigs :
         /\ commands = config
         /\ children \in [1..Len(config) -> ChildBehaviours]
         /\ results = [i \in 1..Len(config) |->
                         [config |-> config[i],
                          result |-> [kind |-> "Pending"]]]
         /\ pc = [i \in 1..Len(config) |-> "spawn"]
    /\ history = <<>>
    /\ prev = <<>>
    /\ file = MissingFile
    /\ file0 = file
    /\ now = 0
    /\ trace = <<>>
    /\ err = "none"
    /\ runs = 0
    /\ failed_before = {}

NextRunner ==
    \/ \E i \in DOMAIN pc : Spawn(i)
    \/ \E i \in DOMAIN pc : ChildEnds(i)
    \/ \E i \in DOMAIN pc : TimerFires(i)
    \/ Tick

\* The runtime keeps polling the futures that are ready, and time passes.
SpecRunner == InitRunner /\ [][NextRunner]_vars /\ WF_vars(NextRunner)

----------------------------------------------------------------------------
(* Two invocations of the program on the same history file. In this
   specification history, results and pc hold one value per invocation,
   and trace is the sequence of the file accesses <<invocation, access>>. *)

Procs == {1, 2}

\* The size of a document, counted in logs and entries.
RECURSIVE doc_len(_)
doc_len(doc) ==
    IF doc = <<>> THEN 0
    ELSE 1 + Len(Head(doc)[2]) + doc_len(Tail(doc))

\* Mutant: the file is opened without being emptied.
create_keeps(f) ==
    f

\* File::create(path): the file exists and is empty.
create(f) ==
    SavedFile(<<>>)

\* write_all(contents) at offset 0 of the open file f: the bytes of f
\* beyond the written ones stay, and the file is then the document
\* followed by the end of another one.
write_all(f, doc) ==
    IF f.state = "document" /\ doc_len(f.contents) > doc_len(doc)
      THEN [state |-> "malformed", contents |-> doc \o <<f.contents>>]
      ELSE SavedFile(doc)

\* Invocation p is started: the commands are run.
TwoExecute(p) ==
    /\ pc[p] = "idle"
    /\ \E step \in Steps, config \in Configs :
         /\ now' = now + step
         /\ \E rs \in RunnerOutputs(config, now + step) :
              results' = [results EXCEPT ![p] = rs]
    /\ pc' = [pc EXCEPT ![p] = "load"]
    /\ runs' = runs + 1
    /\ UNCHANGED <<history, prev, file, file0, trace, err, failed_before>>
    /\ UNCHANGED log_vars
    /\ UNCHANGED notify_vars
    /\ UNCHANGED runner_vars
    /\ UNCHANGED send_vars

\* History::load(..)? of invocation p.
TwoLoad(p) ==
    /\ pc[p] = "load"
    /\ IF load(file).ok
         THEN /\ history' = [history EXCEPT ![p] = load(file).history]
              /\ pc' = [pc EXCEPT ![p] = "update"]
              /\ err' = err
         ELSE /\ history' = history
              /\ pc' = [pc EXCEPT ![p] = "abort"]
              /\ err' = load(file).error
    /\ trace' = Append(trace, <<p, "load">>)
    /\ UNCHANGED <<prev, file, file0, now, results, runs, failed_before>>
    /\ UNCHANGED log_vars
    /\ UNCHANGED notify_vars
    /\ UNCHANGED runner_vars
    /\ UNCHANGED send_vars

\* purge_from_results, update, recreate_tags and rotate of invocation p,
\* on its own history; the output files and the notifications follow.
TwoUpdate(p) ==
    /\ pc[p] = "update"
    /\ history' =
         [history EXCEPT ![p] =
            history_rotate(
              history_recreate_tags(
                update(purge_from_results(history[p], results[p]),
                       results[p], now)))]
    /\ pc' = [pc EXCEPT ![p] = "save"]
    /\ UNCHANGED <<prev, file, file0, now, results, trace, err, runs,
                   failed_before>>
    /\ UNCHANGED log_vars
    /\ UNCHANGED notify_vars
    /\ UNCHANGED runner_vars
    /\ UNCHANGED send_vars

\* History::save of invocation p, fs::write: the file is created, which
\* empties it.
TwoCreate(p) ==
    /\ pc[p] = "save"
    /\ file' = create(file)
    /\ pc' = [pc EXCEPT ![p] = "write_all"]
    /\ trace' = Append(trace, <<p, "create">>)
    /\ UNCHANGED <<history, prev, file0, now, results, err, runs,
                   failed_before>>
    /\ UNCHANGED log_vars
    /\ UNCHANGED notify_vars
    /\ UNCHANGED runner_vars
    /\ UNCHANGED send_vars

\* History::save of invocation p, fs::write: the document is written.
TwoWrite(p) ==
    /\ pc[p] = "write_all"
    /\ file' = write_all(file, to_string(history[p]))
    /\ pc' = [pc EXCEPT ![p] = "exit"]
    /\ trace' = Append(trace, <<p, "write_all">>)
    /\ UNCHANGED <<history, prev, file0, now, results, err, runs,
                   failed_before>>
    /\ UNCHANGED log_vars
    /\ UNCHANGED notify_vars
    /\ UNCHANGED runner_vars
    /\ UNCHANGED send_vars

InitTwo ==
    /\ NoLogOp
    /\ history = [p \in Procs |-> <<>>]
    /\ prev = <<>>
    /\ file \in InitFiles
    /\ file0 = file
    /\ now = StartTime
    /\ results = [p \in Procs |-> <<>>]
    /\ pc = [p \in Procs |-> "idle"]
    /\ trace = <<>>
    /\ err = "none"
    /\ runs = 0
    /\ failed_before = {}
    /\ NoNotify
    /\ NoChildren
    /\ NoSend

NextTwo ==
    \E p \in Procs :
        \/ TwoExecute(p)
        \/ TwoLoad(p)
        \/ TwoUpdate(p)
        \/ TwoCreate(p)
        \/ TwoWrite(p)

SpecTwo == InitTwo /\ [][NextTwo]_vars

----------------------------------------------------------------------------
(* CommandHistory::need_to_notify, the decider check_and_send_notifications
   calls for every log *)

\* The last two entries of log s are failures.
two_failures(s) ==
    /\ Len(s) > 1
    /\ ~s[Len(s)].result.ok
    /\ ~s[Len(s) - 1].result.ok

\* TimeDelta::num_minutes of a non-negative number of seconds.
num_minutes(delta) == delta \div 60

\* Mutant: the time since the last notification is not looked at.
need_to_notify_ignores_elapsed(s, last, config, t) ==
    IF is_new_error(s) THEN "Failure"
    ELSE IF is_back_from_failure(s)
      THEN IF config.notify_on_success_after_failure
             THEN "BackFromFailure" ELSE "None"
    ELSE IF /\ two_failures(s)
            /\ config.minutes_between_continuous_failure_notification > 0
      THEN "ContinuousFailure"
    ELSE "None"

\* Mutant: 0 minutes between notifications means a notification at every
\* failure.
need_to_notify_zero_is_always(s, last, config, t) ==
    IF is_new_error(s) THEN "Failure"
    ELSE IF is_back_from_failure(s)
      THEN IF config.notify_on_success_after_failure
             THEN "BackFromFailure" ELSE "None"
    ELSE IF /\ two_failures(s)
            /\ num_minutes(t - last) >=
                 config.minutes_between_continuous_failure_notification
      THEN "ContinuousFailure"
    ELSE "None"

\* The NotificationType for log s at instant t, the last notification for
\* the log having been sent at instant last.
need_to_notify(s, last, config, t) ==
    IF is_new_error(s) THEN "Failure"
    ELSE IF is_back_from_failure(s)
      THEN IF config.notify_on_success_after_failure
             THEN "BackFromFailure" ELSE "None"
    ELSE IF /\ two_failures(s)
            /\ config.minutes_between_continuous_failure_notification > 0
            /\ num_minutes(t - last) >=
                 config.minutes_between_continuous_failure_notification
      THEN "ContinuousFailure"
    ELSE "None"

\* The NotificationConfig values: the default 0 minutes between
\* notifications of a continuous failure, or 2 minutes.
NotificationConfigs ==
    [notify_on_success_after_failure : BOOLEAN,
     minutes_between_continuous_failure_notification : {0, 2}]

\* The seconds since the last notification for the log.
Elapsed == {0, 119, 120, 7200}

\* The logs the decider is given: tagged and rotated, not empty.
RotatedLogs ==
    { rotate(recreate_tags(l)) : l \in InitLogs \ {<<>>} }

InitNotify ==
    /\ entries \in RotatedLogs
    /\ before = entries
    /\ op = "new"
    /\ ret = "None"
    /\ history = <<>>
    /\ prev = <<>>
    /\ file = MissingFile
    /\ file0 = file
    /\ now = latest_timestamp(entries)
    /\ results = <<>>
    /\ pc = "check_and_send_notifications"
    /\ trace = <<>>
    /\ err = "none"
    /\ runs = 0
    /\ failed_before = {}
    /\ nconfig \in NotificationConfigs
    /\ last_notification \in { now - e : e \in Elapsed }
    /\ NoChildren
    /\ NoSend

\* let ntype = command_history.need_to_notify(config); a notification
\* that is sent is remembered as the last one.
NeedToNotify ==
    /\ op = "new"
    /\ ret' = need_to_notify(entries, last_notification, nconfig, now)
    /\ op' = "need_to_notify"
    /\ last_notification' = IF ret' = "None" THEN last_notification ELSE now
    /\ UNCHANGED <<entries, before, nconfig>>
    /\ UNCHANGED run_vars
    /\ UNCHANGED runner_vars
    /\ UNCHANGED send_vars

NextNotify == NeedToNotify

SpecNotify == InitNotify /\ [][NextNotify]_vars

----------------------------------------------------------------------------
(* send_notification: the title and the details have been formatted; what
   is left is the truncation and the request. A text is the sequence of
   its characters, all of one byte; character i of a formatted text is
   i. *)

\* The limits of the two `len() >` tests.
DetailsLimit == 1024

TitleLimit == 255

\* The text of n characters.
Text(n) == [i \in 1..n |-> i]

\* The lengths of the formatted texts: empty, short, around the limit,
\* and more than twice the limit.
TextLens(limit) ==
    {0, 1, limit - 1, limit, limit + 1, 2 * limit, 2 * limit + 1}

\* Mutant: String::truncate(n), which keeps the first n characters.
drain_keeps_beginning(s, n) == SubSeq(s, 1, n)

\* s.drain(..n).for_each(drop): the first n characters are removed from
\* s; the value of s afterwards.
drain(s, n) == SubSeq(s, n + 1, Len(s))

\* if s.len() > limit { s.drain(..limit).for_each(drop); }
truncated(s, limit) ==
    IF Len(s) > limit THEN drain(s, limit) ELSE s

\* The form send_notification posts: message and title.
posted_form(n) ==
    [message |-> truncated(n.details, DetailsLimit),
     title |-> truncated(n.title, TitleLimit)]

\* config.pushover is None: nothing is sent.
SendNothing ==
    /\ pc = "send_notification"
    /\ ~notification.pushover
    /\ pc' = "Ok"
    /\ UNCHANGED send_vars
    /\ UNCHANGED <<history, prev, file, file0, now, results, trace, err,
                   runs, failed_before>>
    /\ UNCHANGED log_vars
    /\ UNCHANGED notify_vars
    /\ UNCHANGED runner_vars

\* The form is posted and Pushover answers with success.
SendNotification ==
    /\ pc = "send_notification"
    /\ notification.pushover
    /\ form' = posted_form(notification)
    /\ pc' = "Ok"
    /\ UNCHANGED notification
    /\ UNCHANGED <<history, prev, file, file0, now, results, trace, err,
                   runs, failed_before>>
    /\ UNCHANGED log_vars
    /\ UNCHANGED notify_vars
    /\ UNCHANGED runner_vars

\* The form is posted and the request fails or Pushover refuses it.
SendNotificationFails ==
    /\ pc = "send_notification"
    /\ notification.pushover
    /\ form' = posted_form(notification)
    /\ pc' = "Err"
    /\ err' \in {"ReqwestError", "PushoverError"}
    /\ UNCHANGED notification
    /\ UNCHANGED <<history, prev, file, file0, now, results, trace, runs,
                   failed_before>>
    /\ UNCHANGED log_vars
    /\ UNCHANGED notify_vars
    /\ UNCHANGED runner_vars

InitSend ==
    /\ NoLogOp
    /\ NoNotify
    /\ NoChildren
    /\ notification \in
         { [pushover |-> p, title |-> Text(a), details |-> Text(b)] :
             p \in BOOLEAN, a \in TextLens(TitleLimit),
             b \in TextLens(DetailsLimit) }
    /\ form = <<>>
    /\ history = <<>>
    /\ prev = <<>>
    /\ file = MissingFile
    /\ file0 = file
    /\ now = StartTime
    /\ results = <<>>
    /\ pc = "send_notification"
    /\ trace = <<>>
    /\ err = "none"
    /\ runs = 0
    /\ failed_before = {}

NextSend ==
    \/ SendNothing
    \/ SendNotification
    \/ SendNotificationFails

SpecSend == InitSend /\ [][NextSend]_vars

----------------------------------------------------------------------------
(* Vocabulary of the properties *)

\* The last entry of a non-empty log.
LastEntry(s) == s[Len(s)]

\* The greatest element of a non-empty set of integers.
Greatest(S) == CHOOSE x \in S : \A y \in S : y <= x

\* The positions at which a maximal run of adjacent same-tag entries starts.
RunStarts(s) ==
    { i \in 1..Len(s) : i = 1 \/ s[i].tag # s[i - 1].tag }

\* The last position of the run that starts at i.
RunEnd(s, i) ==
    Greatest({ j \in i..Len(s) : \A m \in i..j : s[m].tag = s[i].tag })

\* The rank of the run that starts at i among the runs of s.
RunRank(s, i) == Cardinality({ j \in RunStarts(s) : j <= i })

\* The entry of the run i..j a failure-biased collapse reflects: the most
\* recent failure when there is one, the most recent success otherwise.
RunRepresentative(s, i, j) ==
    LET F == { m \in i..j : ~s[m].result.ok }
    IN IF F # {} THEN s[Greatest(F)] ELSE s[j]

\* Age of an entry of timestamp t, in seconds, relative to the last entry
\* of the log s.
AgeIn(s, t) == LastEntry(s).timestamp - t

----------------------------------------------------------------------------
(* Properties *)

\* C1: rotate collapses each maximal run of adjacent same-tag entries into
\* one entry whose outcome and timestamp are those of the run's most recent
\* failure when the run holds a failure, and those of the run's most recent
\* success otherwise; a later success never erases a failure.
C1_RotateKeepsMostRecentFailure ==
    op = "rotate" =>
        /\ Len(entries) = Cardinality(RunStarts(before))
        /\ \A i \in RunStarts(before) :
             LET rep == RunRepresentative(before, i, RunEnd(before, i))
                 kept == entries[RunRank(before, i)]
             IN /\ kept.result = rep.result
                /\ kept.timestamp = rep.timestamp

\* Witness of C1: rotate has collapsed a run that holds a success, then a
\* failure, then a success, and the kept entry is the failure.
C1_Witness ==
    /\ op = "rotate"
    /\ \E i \in RunStarts(before) :
         /\ RunEnd(before, i) >= i + 2
         /\ before[i].result.ok
         /\ ~before[i + 1].result.ok
         /\ before[i + 2].result.ok
         /\ RunEnd(before, i) = i + 2
         /\ ~entries[RunRank(before, i)].result.ok
         /\ entries[RunRank(before, i)].timestamp = before[i + 1].timestamp

\* C2 (as stated): the entry rotate keeps for a run is equal in every field
\* (timestamp, tag, command text, outcome) to the entry of the run it
\* reflects, whatever the command texts of the run's entries are.
C2_KeptEntryIsAnEntryOfTheRun ==
    op = "rotate" =>
        \A i \in RunStarts(before) :
            entries[RunRank(before, i)]
                = RunRepresentative(before, i, RunEnd(before, i))

\* C3: recreate_tags assigns each surviving entry's tag kind from its age
\* relative to the timestamp of the log's last entry: age < 1 hour gives a
\* Minute tag, 1 hour <= age < 25 hours an Hour tag, age >= 25 hours a Day
\* tag; entries younger than 25 hours all survive.
C3_TagKindFollowsAge ==
    (op = "recreate_tags" /\ before # <<>>) =>
        /\ \A i \in 1..Len(entries) :
             LET age == AgeIn(before, entries[i].timestamp)
                 kind == entries[i].tag.kind
             IN /\ (age < 3600) => kind = "Minute"
                /\ (3600 <= age /\ age < 25 * 3600) => kind = "Hour"
                /\ (25 * 3600 <= age) => kind = "Day"
        /\ \A i \in 1..Len(before) :
             AgeIn(before, before[i].timestamp) < 25 * 3600
                => \E k \in 1..Len(entries) :
                     entries[k].timestamp = before[i].timestamp

\* Witness of C3: after recreate_tags the log holds an entry exactly one
\* hour old tagged Hour, an entry exactly 25 hours old tagged Day, and a
\* Minute entry.
C3_Witness ==
    /\ op = "recreate_tags"
    /\ Len(entries) = 3
    /\ AgeIn(before, entries[1].timestamp) = 25 * 3600
    /\ entries[1].tag.kind = "Day"
    /\ AgeIn(before, entries[2].timestamp) = 3600
    /\ entries[2].tag.kind = "Hour"
    /\ entries[3].tag.kind = "Minute"

\* C4: after recreate_tags every tag value is derived from the entry's own
\* timestamp: Minute(floor(minute/5)*5), a multiple of 5 in 0..55;
\* Hour(hour of day) in 0..23; Day(weekday, Monday = 0) in 0..6. Two entries
\* of the same 5-minute slot, both less than one hour old, get the same
\* Minute tag.
C4_TagValueFollowsTimestamp ==
    op = "recreate_tags" =>
        /\ \A i \in 1..Len(entries) :
             LET t == entries[i].timestamp
                 tag == entries[i].tag
             IN /\ tag.kind = "Minute" =>
                     /\ tag.value = 5 * (((t % 3600) \div 60) \div 5)
                     /\ tag.value \in { 5 * q : q \in 0..11 }
                /\ tag.kind = "Hour" =>
                     /\ tag.value = (t % 86400) \div 3600
                     /\ tag.value \in 0..23
                /\ tag.kind = "Day" =>
                     /\ tag.value = (t \div 86400) % 7
                     /\ tag.value \in 0..6
        /\ \A i, j \in 1..Len(entries) :
             ( /\ AgeIn(before, entries[i].timestamp) < 3600
               /\ AgeIn(before, entries[j].timestamp) < 3600
               /\ entries[i].timestamp \div 300 = entries[j].timestamp \div 300 )
             => /\ entries[i].tag = entries[j].tag
                /\ entries[i].tag.kind = "Minute"

\* Witness of C4: recreate_tags has given the tag Minute(45) to two entries
\* of the same 5-minute slot (19:48:21 and 19:49:43) and a Day tag to an
\* older entry.
C4_Witness ==
    /\ op = "recreate_tags"
    /\ Len(entries) = 3
    /\ entries[1].tag.kind = "Day"
    /\ entries[2].timestamp = At(9, 19, 48, 21)
    /\ entries[3].timestamp = At(9, 19, 49, 43)
    /\ entries[2].tag = Minute(45)
    /\ entries[3].tag = Minute(45)

\* C5: recreate_tags removes an entry exactly when its age relative to the
\* last entry is at least 25 hours and its calendar date is earlier than the
\* last entry's date minus 8 whole days; every other entry is kept, with
\* every field but the tag unchanged. With a last entry on Wed 07 Feb, an
\* entry of Mon 29 Jan is dropped and one of Tue 30 Jan survives as Day(1).
C5_RemovedExactlyWhenTooOld ==
    (op = "recreate_tags" /\ before # <<>>) =>
        LET latest == LastEntry(before).timestamp
            TooOld(e) ==
                /\ latest - e.timestamp >= 25 * 3600
                /\ e.timestamp \div 86400 < (latest \div 86400) - 8
            Kept(e) == ~TooOld(e)
            kept == SelectSeq(before, Kept)
        IN /\ Len(entries) = Len(kept)
           /\ \A k \in 1..Len(kept) :
                entries[k] = [kept[k] EXCEPT !.tag = entries[k].tag]
           /\ (latest \div 86400 = 9) =>
                /\ \A k \in 1..Len(entries) :
                     entries[k].timestamp \div 86400 # 0
                /\ \A i \in 1..Len(before) :
                     before[i].timestamp \div 86400 = 1 =>
                        \E k \in 1..Len(entries) :
                            /\ entries[k].timestamp = before[i].timestamp
                            /\ entries[k].tag = Day(1)

\* Witness of C5: with a last entry on Wed 07 Feb, recreate_tags has dropped
\* the entry of Mon 29 Jan and kept the one of Tue 30 Jan as Day(1).
C5_Witness ==
    /\ op = "recreate_tags"
    /\ Len(before) = 3
    /\ before[1].timestamp = At(0, 23, 41, 22)
    /\ before[2].timestamp = At(1, 1, 41, 22)
    /\ before[3].timestamp = At(9, 19, 49, 43)
    /\ Len(entries) = 2
    /\ entries[1].timestamp = At(1, 1, 41, 22)
    /\ entries[1].tag = Day(1)

\* The instants of the entries of a log.
Timestamps(s) == { s[i].timestamp : i \in 1..Len(s) }

\* C6 (as stated): recreate_tags removes every entry whose timestamp is
\* older than (last entry's timestamp - 25 hours - 7 days): no such entry is
\* in the log after recreate_tags nor after the rotate that follows.
C6_NoEntryOlderThanCutoffInstant ==
    (op = "recreate_tags" /\ before # <<>>) =>
        LET cutoff == LastEntry(before).timestamp - 25 * 3600 - 7 * 86400
        IN \A t \in Timestamps(entries) \cup Timestamps(rotate(entries)) :
             ~(t < cutoff)

\* C6 (amended): recreate_tags removes every entry whose calendar date is
\* earlier than the last entry's calendar date minus 8 days: no such entry
\* is in the log after recreate_tags nor after the rotate that follows.
C6_NoEntryOlderThanCutoffDate ==
    (op = "recreate_tags" /\ before # <<>>) =>
        LET cutoff == (LastEntry(before).timestamp \div 86400) - 8
        IN \A t \in Timestamps(entries) \cup Timestamps(rotate(entries)) :
             ~(t \div 86400 < cutoff)

\* Witness of C6: recreate_tags has removed an entry, and has kept an entry
\* that is older than the last entry by more than 25 hours + 7 days because
\* its date is exactly 8 days before the last entry's date.
C6_Witness ==
    /\ op = "recreate_tags"
    /\ Len(entries) < Len(before)
    /\ \E k \in 1..Len(entries) :
         /\ entries[k].timestamp
              < LastEntry(before).timestamp - 25 * 3600 - 7 * 86400
         /\ entries[k].timestamp \div 86400
              = (LastEntry(before).timestamp \div 86400) - 8
         /\ entries[k].timestamp \in Timestamps(rotate(entries))

\* C7: rotate never increases the number of entries, and afterwards no two
\* adjacent entries carry the same tag (same kind and same value).
C7_RotateLeavesNoAdjacentEqualTags ==
    op = "rotate" =>
        /\ Len(entries) <= Len(before)
        /\ \A i \in 1..(Len(entries) - 1) :
             ~( /\ entries[i].tag.kind = entries[i + 1].tag.kind
                /\ entries[i].tag.value = entries[i + 1].tag.value )

\* Witness of C7: rotate has collapsed two adjacent Day entries of a log
\* that keeps entries of other tags.
C7_Witness ==
    /\ op = "rotate"
    /\ Len(entries) >= 2
    /\ Len(entries) < Len(before)
    /\ \E i \in 1..(Len(before) - 1) :
         /\ before[i].tag.kind = "Day"
         /\ before[i].tag = before[i + 1].tag

\* C8: recreate_tags is idempotent: a second call right after the first
\* removes no further entry and changes no tag.
C8_RecreateTagsIdempotent ==
    [][(op = "recreate_tags" /\ op' = "recreate_tags") => entries' = entries]_vars

\* Witness of C8: recreate_tags has been called on a log that an earlier
\* call had already tagged, whose oldest entry is a Day entry dated exactly
\* 8 days before the last entry, and has left it unchanged.
C8_Witness ==
    /\ op = "recreate_tags"
    /\ before = entries
    /\ Len(entries) >= 2
    /\ entries[1].tag.kind = "Day"
    /\ entries[1].timestamp \div 86400
         = (LastEntry(entries).timestamp \div 86400) - 8

\* C9: is_new_error is true exactly when the last entry is a failure and
\* either the log has a single entry or the second-to-last entry is a
\* success; it is false for an empty log.
C9_IsNewError ==
    op = "is_new_error" =>
        ( ret <=> /\ Len(entries) >= 1
                  /\ ~entries[Len(entries)].result.ok
                  /\ \/ Len(entries) = 1
                     \/ entries[Len(entries) - 1].result.ok )

\* Witness of C9: is_new_error has returned true on a single-entry log.
C9_Witness ==
    /\ op = "is_new_error"
    /\ ret
    /\ Len(entries) = 1

\* C10: is_back_from_failure is true exactly when the log has at least two
\* entries, the last one is a success and the second-to-last a failure.
C10_IsBackFromFailure ==
    op = "is_back_from_failure" =>
        ( ret <=> /\ Len(entries) >= 2
                  /\ entries[Len(entries)].result.ok
                  /\ ~entries[Len(entries) - 1].result.ok )

\* Witness of C10: is_back_from_failure has returned true.
C10_Witness ==
    /\ op = "is_back_from_failure"
    /\ ret
    /\ Len(entries) >= 2

----------------------------------------------------------------------------
(* Properties of an invocation *)

\* The running invocation has completed step s.
Completed(s) == \E i \in 1..Len(trace) : trace[i] = s

\* The log of command name in history h; the empty log when there is none.
LogOf(h, name) ==
    IF \E i \in 1..Len(h) : h[i].name = name
      THEN (h[CHOOSE i \in 1..Len(h) : h[i].name = name]).entries
      ELSE <<>>

\* C11: in an invocation where a command fails that also failed in the
\* invocation just before, is_new_error is false for its log once update,
\* recreate_tags and rotate have run, whatever the time between the two
\* invocations.
C11_RepeatedFailureIsNotNew ==
    Completed("rotate") =>
        \A name \in Failing(results) \cap failed_before :
            ~is_new_error(LogOf(history, name))

\* C12: in an invocation where a command succeeds that failed in the
\* invocation just before, is_back_from_failure is true for its log once
\* update, recreate_tags and rotate have run, whatever the time between the
\* two invocations.
C12_SuccessAfterFailureIsRecovery ==
    Completed("rotate") =>
        \A name \in Succeeding(results) \cap failed_before :
            is_back_from_failure(LogOf(history, name))

\* The entries of log s are in non-decreasing timestamp order.
Ordered(s) ==
    \A k \in 1..(Len(s) - 1) : s[k].timestamp <= s[k + 1].timestamp

\* C13: in every state reached from an empty store by invocations whose
\* clock does not go back, the entries of every log are in non-decreasing
\* timestamp order, also after rotate has rewritten a merged entry's
\* timestamp.
C13_EntriesInTimestampOrder ==
    \A i \in 1..Len(history) : Ordered(history[i].entries)

\* rotate has just merged the newest failure into the last entry of a log
\* that has an earlier entry: the last entry's timestamp was rewritten to
\* the present instant.
C13_Witness ==
    /\ Completed("rotate")
    /\ pc = step_after("rotate")
    /\ \E i \in 1..Len(history) :
         /\ Len(history[i].entries) >= 2
         /\ Len(prev[i].entries) = Len(history[i].entries) + 1
         /\ LastEntry(history[i].entries).timestamp = now
         /\ prev[i].entries[Len(history[i].entries)].timestamp < now

\* The number of entries of log s whose tag is of the given kind.
TagCount(s, kind) ==
    Cardinality({ k \in 1..Len(s) : s[k].tag.kind = kind })

JustDid(s) ==
    /\ trace # <<>>
    /\ trace[Len(trace)] = s
    /\ pc = step_after(s)

\* The names of the commands of the results rs.
ResultNames(rs) == { rs[i].config.name : i \in 1..Len(rs) }

\* Sequence s is sequence u with some elements left out.
RECURSIVE SubSeqOf(_, _)
SubSeqOf(s, u) ==
    IF s = <<>> THEN TRUE
    ELSE IF u = <<>> THEN FALSE
    ELSE IF Head(s) = Head(u) THEN SubSeqOf(Tail(s), Tail(u))
    ELSE SubSeqOf(s, Tail(u))

\* C15: purge_from_results keeps exactly the logs whose name is the name of
\* a command of the results and removes the others; the kept logs are in
\* the order they were in and their entries are unchanged.
C15_PurgeKeepsExactlyTheNamedLogs ==
    JustDid("purge_from_results") =>
        /\ SubSeqOf(history, prev)
        /\ \A j \in 1..Len(history) : history[j].name \in ResultNames(results)
        /\ Len(history) =
             Cardinality({ i \in 1..Len(prev) :
                             prev[i].name \in ResultNames(results) })

\* purge_from_results has removed the second of three logs and kept the
\* two others, which the results name in the opposite order.
C15_Witness ==
    /\ JustDid("purge_from_results")
    /\ Len(prev) = 3
    /\ history = <<prev[1], prev[3]>>
    /\ history[1].entries # <<>>
    /\ results[1].config.name = history[2].name
    /\ results[2].config.name = history[1].name

\* The names of the logs of history h.
LogNames(h) == { h[i].name : i \in 1..Len(h) }

\* The result of the command called name in the results rs.
ResultOf(rs, name) ==
    rs[CHOOSE i \in 1..Len(rs) : rs[i].config.name = name]

\* Entry e is what update records for result r at instant t, its outcome
\* apart: the instant, the placeholder tag and the command text.
AppendedFor(e, r, t) ==
    /\ e.timestamp = t
    /\ e.tag = Minute(0)
    /\ e.command = r.config.run
    /\ e.result.ok = (r.result.kind = "Ok")

\* C16: update appends exactly one entry per result to the log of the
\* result's command, a log it creates after the existing ones when there
\* is none, with timestamp now, tag Minute(0) and the command's text; the
\* earlier entries, and the logs of commands without a result, are
\* unchanged.
C16_UpdateAppendsOneEntryPerResult ==
    JustDid("update") =>
        /\ Len(history) >= Len(prev)
        /\ \A i \in 1..Len(prev) :
             /\ history[i].name = prev[i].name
             /\ IF prev[i].name \in ResultNames(results)
                  THEN /\ Len(history[i].entries) = Len(prev[i].entries) + 1
                       /\ SubSeq(history[i].entries, 1, Len(prev[i].entries))
                            = prev[i].entries
                       /\ AppendedFor(LastEntry(history[i].entries),
                                      ResultOf(results, prev[i].name), now)
                  ELSE history[i] = prev[i]
        /\ \A i \in (Len(prev) + 1)..Len(history) :
             /\ history[i].name \in ResultNames(results) \ LogNames(prev)
             /\ Len(history[i].entries) = 1
             /\ AppendedFor(history[i].entries[1],
                            ResultOf(results, history[i].name), now)
        /\ LogNames(history) = LogNames(prev) \cup ResultNames(results)
        /\ Cardinality(LogNames(history)) = Len(history)

\* update has left the log of a command without a result as it was,
\* appended an entry to an existing log and created a log after them.
C16_Witness ==
    /\ JustDid("update")
    /\ Len(prev) = 2
    /\ Len(history) = 3
    /\ prev[1].name \notin ResultNames(results)
    /\ history[1] = prev[1]
    /\ prev[2].name \in ResultNames(results)
    /\ Len(history[2].entries) = 2
    /\ history[3].name \notin LogNames(prev)

\* The entry update has just pushed for the command called name.
Recorded(name) == LastEntry(LogOf(history, name))

\* C17: update records every outcome of the runner, and does not fail: a
\* success as Ok(output); an exit with an error status as CommandError
\* with the exit code, -1 when there is none, and the output; a timeout as
\* Timeout with the command's configured timeout; any other error as Other
\* with its message.
C17_UpdateRecordsEveryOutcome ==
    /\ pc = "update" => ENABLED Update
    /\ JustDid("update") =>
         \A k \in 1..Len(results) :
            LET r == results[k]
                e == Recorded(r.config.name).result
            IN /\ r.result.kind = "Ok" =>
                    e = [ok |-> TRUE, exit |-> r.result.exit,
                         out |-> r.result.out]
               /\ (r.result.kind = "ReturnedError" /\ r.result.code # <<>>) =>
                    e = [ok |-> FALSE, error |-> "CommandError",
                         exit |-> r.result.code[1], out |-> r.result.out]
               /\ (r.result.kind = "ReturnedError" /\ r.result.code = <<>>) =>
                    e = [ok |-> FALSE, error |-> "CommandError",
                         exit |-> -1, out |-> r.result.out]
               /\ r.result.kind = "TimedOut" =>
                    e = [ok |-> FALSE, error |-> "Timeout",
                         timeout |-> r.config.timeout]
               /\ r.result.kind = "Command" =>
                    e = [ok |-> FALSE, error |-> "Other",
                         message |-> <<"Command error: ", r.result.message>>]

\* update has recorded at once a process that ended without an exit code
\* and a command that could not be started, next to a success.
C17_Witness ==
    /\ JustDid("update")
    /\ Len(results) = 3
    /\ Recorded("p1").result.ok = FALSE
    /\ Recorded("p1").result.error = "CommandError"
    /\ Recorded("p1").result.exit = -1
    /\ Recorded("p2").result.ok = FALSE
    /\ Recorded("p2").result.error = "Other"
    /\ Recorded("p3").result.ok

\* The running invocation has gone past the call of History::load.
LoadReturned == pc \notin {"idle", "load"}

\* C18: History::load returns an empty history when the history file does
\* not exist; when the file exists and cannot be read or parsed it returns
\* IoError or SerdeError, which ends the invocation; and a history it
\* returns from a file is the whole history of that file.
C18_LoadEmptyWholeOrError ==
    LoadReturned =>
        /\ file0.state = "missing" =>
             /\ Completed("load")
             /\ JustDid("load") => history = <<>>
        /\ file0.state = "unreadable" =>
             /\ pc = "abort" /\ err = "IoError"
             /\ trace = <<>> /\ history = <<>>
        /\ file0.state = "malformed" =>
             /\ pc = "abort" /\ err = "SerdeError"
             /\ trace = <<>> /\ history = <<>>
        /\ file0.state = "document" =>
             /\ Completed("load")
             /\ JustDid("load") => to_string(history) = file0.contents

\* An invocation has ended at History::load with a SerdeError, on a file
\* that an earlier invocation left partly written.
C18_Witness ==
    /\ pc = "abort"
    /\ err = "SerdeError"
    /\ trace = <<>>
    /\ file0.state = "malformed"
    /\ runs >= 2

\* C19: the history file is written only by the last step of an
\* invocation: when loading the history, rendering the output files or
\* sending a notification fails, the invocation ends with the file as it
\* was before the invocation.
C19_FileUntouchedUnlessSaveIsReached ==
    /\ file # file0 =>
         /\ pc \in {"exit", "abort"}
         /\ trace \in { <<"load", "purge_from_results", "update",
                          "recreate_tags", "rotate", "generate_files",
                          "check_and_send_notifications">>,
                        <<"load", "purge_from_results", "update",
                          "recreate_tags", "rotate", "generate_files",
                          "check_and_send_notifications", "save">> }
    /\ (pc = "abort" /\ ~Completed("load")) => file = file0
    /\ (pc = "abort" /\ err = "HtmlError") => file = file0
    /\ (pc = "abort" /\ err = "NotificationError") => file = file0

\* An invocation whose notification failed has ended: the history it
\* computed is not the one of the file, which is the file of before.
C19_Witness ==
    /\ pc = "abort"
    /\ err = "NotificationError"
    /\ file0.state = "document"
    /\ file = file0
    /\ to_string(history) # file.contents

\* Sequence s is the beginning of sequence u.
IsPrefix(s, u) ==
    /\ Len(s) <= Len(u)
    /\ s = SubSeq(u, 1, Len(s))

\* C20: within one invocation the steps on the history run once each, in
\* the order load, purge, update, recreate_tags, rotate, render, notify,
\* save: recreate_tags runs when every command's entry has been appended,
\* rotate when recreate_tags has run, and the transitions are evaluated on
\* the rotated log.
C20_StepsRunOnceInOrder ==
    /\ IsPrefix(trace, <<"load", "purge_from_results", "update",
                         "recreate_tags", "rotate", "generate_files",
                         "check_and_send_notifications", "save">>)
    /\ pc = "exit" => Len(trace) = 8
    /\ pc = "recreate_tags" =>
         \A k \in 1..Len(results) :
            /\ LogOf(history, results[k].config.name) # <<>>
            /\ Recorded(results[k].config.name).timestamp = now
            /\ Recorded(results[k].config.name).tag = Minute(0)
    /\ pc = "rotate" =>
         \A i \in 1..Len(history) : \A k \in 1..Len(history[i].entries) :
            history[i].entries[k].tag =
                entry_tag(history[i].entries[k].timestamp, now)
    /\ pc = "check_and_send_notifications" =>
         /\ Completed("rotate")
         /\ \A i \in 1..Len(history) :
              \A k \in 1..(Len(history[i].entries) - 1) :
                 history[i].entries[k].tag # history[i].entries[k + 1].tag

\* An invocation of three commands has run all its steps to the end.
C20_Witness ==
    /\ pc = "exit"
    /\ Len(trace) = 8
    /\ Len(results) = 3
    /\ \E i \in 1..Len(history) : Len(history[i].entries) >= 2

\* C21: the file written by save(h) is loaded as a history equal to h: the
\* logs in their order, and of every entry the outcome, the timestamp, the
\* tag and the command text.
C21_SaveThenLoadIsIdentity ==
    JustDid("save") =>
        /\ load(file).ok
        /\ load(file).history = history

\* A history of three logs has been saved that holds a Timeout, an Other
\* error and a success, and a log with an Hour tag next to Minute tags.
C21_Witness ==
    /\ JustDid("save")
    /\ Len(history) = 3
    /\ Recorded("p1").result.ok = FALSE
    /\ Recorded("p1").result.error = "Timeout"
    /\ Recorded("p2").result.ok = FALSE
    /\ Recorded("p2").result.error = "Other"
    /\ Recorded("p3").result.ok
    /\ TagCount(LogOf(history, "p1"), "Hour") >= 1
    /\ TagCount(LogOf(history, "p1"), "Minute") >= 1

\* C22: for a log whose last two entries are failures, the decider yields
\* ContinuousFailure only when the configured number of minutes has
\* elapsed since the last notification for the log, None when it has not,
\* and never Failure nor BackFromFailure.
C22_ContinuousFailureOnlyAfterCooldown ==
    [][(op' = "need_to_notify" /\ two_failures(entries)) =>
         /\ ret' \in {"ContinuousFailure", "None"}
         /\ ret' = "ContinuousFailure" =>
              num_minutes(now - last_notification) >=
                nconfig.minutes_between_continuous_failure_notification
         /\ num_minutes(now - last_notification) <
              nconfig.minutes_between_continuous_failure_notification =>
                ret' = "None"]_vars

\* The decider has yielded ContinuousFailure for a log whose last two
\* entries are failures, and the notification is remembered.
C22_Witness ==
    /\ op = "need_to_notify"
    /\ two_failures(entries)
    /\ ret = "ContinuousFailure"
    /\ last_notification = now

Pos(p, a) ==
    IF \E i \in 1..Len(trace) : trace[i] = <<p, a>>
      THEN CHOOSE i \in 1..Len(trace) : trace[i] = <<p, a>>
      ELSE 0

\* Both invocations have loaded the file and saved their history.
BothSaved == \A p \in Procs : pc[p] = "exit"

\* The invocations overlap: both load before either begins to save.
BothLoadBeforeEitherSaves ==
    \A p, q \in Procs : Pos(p, "load") < Pos(q, "create")

\* The invocation whose write is the last one.
LastWriter ==
    CHOOSE p \in Procs :
        \A q \in Procs : Pos(q, "write_all") <= Pos(p, "write_all")

\* One save is over when the other begins.
SavesInSequence ==
    \E p, q \in Procs : Pos(p, "write_all") < Pos(q, "create")

\* C24: when two invocations overlap on the same history file, both
\* loading before either saves, the file finally holds exactly the history
\* saved by the invocation that saves last, without the entries the other
\* one appended.
C24_LastWriterWins ==
    (BothSaved /\ BothLoadBeforeEitherSaves) =>
        file = SavedFile(to_string(history[LastWriter]))

\* C24 as the code has it: the file holds exactly the history of the
\* invocation that saves last when one save is over before the other
\* begins.
C24_LastWriterWinsWhenSavesDoNotOverlap ==
    (BothSaved /\ BothLoadBeforeEitherSaves /\ SavesInSequence) =>
        /\ file = SavedFile(to_string(history[LastWriter]))
        /\ load(file).history = history[LastWriter]

\* Two overlapping invocations have saved one after the other histories
\* that differ, and the file holds the second one: the log that only the
\* first one has is not in it.
C24_Witness ==
    /\ BothSaved
    /\ BothLoadBeforeEitherSaves
    /\ SavesInSequence
    /\ file = SavedFile(to_string(history[LastWriter]))
    /\ \E p \in Procs \ {LastWriter} :
         LogNames(history[p]) \ LogNames(load(file).history) # {}

\* join_all is ready: every future has returned its CommandResult.
AllDone == \A i \in DOMAIN pc : pc[i] = "done"

\* The result of command i is what its own child and its own timeout make
\* it: an I/O error when the child cannot be started or waited for, the
\* child's success or exit status when it ends before the timeout,
\* TimedOut when it has not ended at the timeout.
OwnOutcome(i) ==
    LET child == children[i]
        timeout == results[i].config.timeout
        r == results[i].result
    IN /\ child.kind = "spawn_error" => r.kind = "Command"
       /\ child.kind = "hang" => r.kind = "TimedOut"
       /\ (child.kind = "wait_error" /\ child.after < timeout) =>
             r.kind = "Command"
       /\ (child.kind = "exit" /\ child.after < timeout) =>
             IF child.code = <<0>>
               THEN r.kind = "Ok"
               ELSE r.kind = "ReturnedError" /\ r.code = child.code
       /\ (child.kind = "exit" /\ child.after > timeout) =>
             r.kind = "TimedOut"
       /\ r.kind = "TimedOut" => now >= timeout

\* C25: the parallel run of the commands always ends, with one
\* CommandResult per configured command in configuration order, each
\* command ending as a success, an exit with an error status, an I/O
\* error, or a timeout once its own timeout has elapsed, whatever the
\* other commands do and in whatever order they end.
C25_RunnerEndsWithOneResultPerCommand ==
    /\ <>AllDone
    /\ [](AllDone =>
            /\ Len(results) = Len(commands)
            /\ \A i \in 1..Len(results) :
                 /\ results[i].config = commands[i]
                 /\ results[i].result.kind \in
                      {"Ok", "ReturnedError", "Command", "TimedOut"}
                 /\ OwnOutcome(i))

\* Three commands have ended: the first never exited and timed out after
\* 1 second, the second succeeded after 2 seconds, the third could not be
\* started.
C25_Witness ==
    /\ AllDone
    /\ Len(results) = 3
    /\ children[1].kind = "hang"
    /\ results[1].result.kind = "TimedOut"
    /\ children[2].after = 2
    /\ results[2].result.kind = "Ok"
    /\ results[3].result.kind = "Command"

\* Two of the configured commands have the same name.
SharedName ==
    \E i, j \in 1..Len(commands) :
        i # j /\ commands[i].name = commands[j].name

\* C26: check_unique_command_names returns the NotUniqueCommandName error
\* exactly when two configured commands share a name, the error naming a
\* shared name, and Ok otherwise; Config::load never returns a
\* configuration in which two commands share a name.
C26_NotUniqueCommandNameIffSharedName ==
    /\ pc # "Config::load" =>
         /\ ret.ok <=> ~SharedName
         /\ (err = "NotUniqueCommandName") <=> SharedName
         /\ ~ret.ok =>
              \E i, j \in 1..Len(commands) :
                  /\ i < j
                  /\ commands[i].name = ret.cmd
                  /\ commands[j].name = ret.cmd
    /\ pc = "Ok" => ~SharedName

\* The load of three commands has failed: the first and the third share a
\* name, the second has another one.
C26_Witness ==
    /\ pc = "Err"
    /\ Len(commands) = 3
    /\ commands[1].name = commands[3].name
    /\ commands[2].name # commands[1].name
    /\ ret.cmd = commands[3].name

\* Entry i of log s is the oldest member of its run: the first entry, or
\* an entry whose tag differs from the tag of the entry before it.
RunStart(s, i) == i = 1 \/ s[i].tag # s[i - 1].tag

\* The number of the run entry i of log s belongs to, runs being counted
\* from the oldest.
RunOf(s, i) == Cardinality({ j \in 1..i : RunStart(s, j) })

\* The run of entry i of log s has length 1.
AloneInRun(s, i) ==
    /\ RunStart(s, i)
    /\ i = Len(s) \/ RunStart(s, i + 1)

\* C27: rotate leaves one entry per run of adjacent equal tags, at the
\* place of the run among the runs and with the run's tag; an entry whose
\* run has length 1 is left unchanged in all fields; two entries with the
\* same tag that are separated by an entry with another tag are in two
\* runs and are not merged.
C27_RotateCollapsesRunsInPlace ==
    (op = "rotate" /\ before # <<>>) =>
        /\ Len(entries) = RunOf(before, Len(before))
        /\ \A i \in 1..Len(before) :
             /\ entries[RunOf(before, i)].tag = before[i].tag
             /\ AloneInRun(before, i) =>
                  entries[RunOf(before, i)] = before[i]

\* Witness of C27: rotate has been applied to a log of three entries whose
\* first and last entries carry the same tag and whose middle entry
\* another one, and has kept the three.
C27_Witness ==
    /\ op = "rotate"
    /\ Len(before) = 3
    /\ before[1].tag = before[3].tag
    /\ before[2].tag # before[1].tag
    /\ entries = before

\* C28: rotate is idempotent: a second call right after the first leaves
\* the log unchanged.
C28_RotateIdempotent ==
    [][(op = "rotate" /\ op' = "rotate") => entries' = entries]_vars

\* Witness of C28: rotate has been called on a log that an earlier call
\* had collapsed to two entries, and has left it unchanged.
C28_Witness ==
    /\ op = "rotate"
    /\ before = entries
    /\ Len(entries) = 2
    /\ entries[1].tag # entries[2].tag
    /\ entries[1].timestamp # entries[2].timestamp

\* C29: once update, recreate_tags and rotate of an invocation have run,
\* is_new_error is true for a command's log only if the result of that
\* command in this invocation is a failure: a command that has just
\* succeeded is never classified as a new failure.
C29_NewErrorOnlyForFailingCommand ==
    Completed("rotate") =>
        \A name \in Succeeding(results) :
            ~is_new_error(LogOf(history, name))

\* The real time bucket of an entry: the 5-minute slot of its hour and
\* date for a Minute tag, the clock hour of its date for an Hour tag, the
\* calendar date for a Day tag.
RealBucket(e) ==
    IF e.tag.kind = "Minute"
      THEN <<"Minute", date_naive(e.timestamp), hour(e.timestamp),
             minute(e.timestamp) \div MinuteSlot>>
      ELSE IF e.tag.kind = "Hour"
             THEN <<"Hour", date_naive(e.timestamp), hour(e.timestamp)>>
             ELSE <<"Day", date_naive(e.timestamp)>>

\* C30: when rotate is applied to a log in timestamp order as
\* recreate_tags has tagged it, two entries that rotate merges into one
\* lie in the same real time bucket, so the log keeps at least one entry
\* per real bucket: entries with the same tag value that are an hour, a
\* day or a week apart are not merged.
C30_MergedEntriesShareRealBucket ==
    (op = "rotate" /\ before = recreate_tags(before) /\ Ordered(before)) =>
        /\ \A i, j \in 1..Len(before) :
             RunOf(before, i) = RunOf(before, j) =>
                RealBucket(before[i]) = RealBucket(before[j])
        /\ Len(entries) >=
             Cardinality({ RealBucket(before[i]) : i \in 1..Len(before) })

\* C31: recreate_tags never removes the last entry of a log and tags it
\* Minute: a non-empty log stays non-empty, its last entry is the last
\* entry of before with a Minute tag, and the latest timestamp is the
\* same before and after the call.
C31_LastEntryKeptAndTaggedMinute ==
    (op = "recreate_tags" /\ before # <<>>) =>
        /\ entries # <<>>
        /\ LastEntry(entries).tag.kind = "Minute"
        /\ LastEntry(entries) =
             [LastEntry(before) EXCEPT !.tag = LastEntry(entries).tag]
        /\ LastEntry(entries).timestamp = LastEntry(before).timestamp

\* Witness of C31: recreate_tags has removed the oldest entry of a log of
\* three and kept the last one, which it has tagged Minute while the
\* entry before it is tagged in a coarser tier.
C31_Witness ==
    /\ op = "recreate_tags"
    /\ Len(before) = 3
    /\ Len(entries) = 2
    /\ entries[2].timestamp = before[3].timestamp
    /\ entries[2].tag.kind = "Minute"
    /\ entries[1].tag.kind # "Minute"

\* The tier of a tag, from the coarsest to the finest.
TierRank(tag) ==
    IF tag.kind = "Day" THEN 0 ELSE IF tag.kind = "Hour" THEN 1 ELSE 2

\* From the oldest entry of log s to the newest the tags are Day tags,
\* then Hour tags, then Minute tags.
TierOrdered(s) ==
    \A k \in 1..(Len(s) - 1) : TierRank(s[k].tag) <= TierRank(s[k + 1].tag)

\* The history of the invocation that has just ended as recreate_tags
\* left it, before rotate.
TaggedHistory ==
    history_recreate_tags(
        update(purge_from_results(prev, results), results, now))

\* C32: in every invocation, after recreate_tags and after the rotate
\* that follows, the tags of every log are in tier order from the oldest
\* entry to the newest, Day tags, then Hour tags, then Minute tags; and
\* from one invocation to the next, the clock not going back, no entry
\* that is kept goes back to a finer tier.
C32_TiersInOrderAndNeverFiner ==
    /\ [](pc = "exit" =>
            /\ \A i \in 1..Len(TaggedHistory) :
                 /\ Ordered(TaggedHistory[i].entries)
                 /\ TierOrdered(TaggedHistory[i].entries)
            /\ \A i \in 1..Len(history) : TierOrdered(history[i].entries))
    /\ [][\A i \in 1..Len(history) :
            \A k \in 1..Len(history[i].entries) :
              \A j \in 1..Len(LogOf(history', history[i].name)) :
                 LogOf(history', history[i].name)[j].timestamp
                      = history[i].entries[k].timestamp
                   => TierRank(LogOf(history', history[i].name)[j].tag)
                        <= TierRank(history[i].entries[k].tag)]_vars

\* Witness of C32: after an invocation a log holds Day, Hour and Minute
\* entries, and the entry that was the last one, tagged Minute, two days
\* earlier is now its oldest entry, tagged Day.
C32_Witness ==
    /\ pc = "exit"
    /\ Len(history) = 1
    /\ history[1].entries[1].tag.kind = "Day"
    /\ history[1].entries[1].timestamp = now - 2 * 86400
    /\ TagCount(history[1].entries, "Hour") > 0
    /\ TagCount(history[1].entries, "Minute") > 0

\* C33: in each invocation the Summary of the run, which main hands to
\* the renderer, agrees with the history after rotate that is rendered
\* with it: nb_err is the number of logs whose last entry is a failure
\* and nb_ok the number of logs whose last entry is a success.
C33_SummaryAgreesWithRotatedHistory ==
    Completed("rotate") =>
        from_results(results) = get_summary_from_latest(history)

\* History h holds exactly one log per command of the results rs, and no
\* log without entry.
OneLogPerCommand(h, rs) ==
    /\ LogNames(h) = ResultNames(rs)
    /\ Len(h) = Cardinality(ResultNames(rs))
    /\ \A i \in 1..Len(h) : h[i].entries # <<>>

\* C34: in every invocation that starts without a history file or from a
\* file an earlier invocation saved, the history holds exactly one log per
\* configured command once update has run (names unique, no log for a
\* command that is not configured), every log has at least one entry, and
\* so does the history read back from the file the invocation saves.
C34_OneNonEmptyLogPerConfiguredCommand ==
    /\ Completed("update") => OneLogPerCommand(history, results)
    /\ JustDid("save") => OneLogPerCommand(load(file).history, results)

\* Witness of C34: an invocation with two configured commands has saved a
\* history of two logs, having started from a saved history of three logs
\* of which it has purged one.
C34_Witness ==
    /\ JustDid("save")
    /\ Len(load(file0).history) = 3
    /\ Len(results) = 2
    /\ Len(load(file).history) = 2
    /\ Len(load(file).history[1].entries) = 2

\* The last two entries of log s have the same outcome, success or failure.
LastTwoAlike(s) ==
    /\ Len(s) >= 2
    /\ s[Len(s)].result.ok = s[Len(s) - 1].result.ok

\* C35: for every log, is_new_error and is_back_from_failure are never
\* both true, and both are false when the last two entries are both
\* successes or both failures.
C35_TransitionQueriesExclusive ==
    /\ ~(is_new_error(entries) /\ is_back_from_failure(entries))
    /\ LastTwoAlike(entries) =>
         /\ ~is_new_error(entries)
         /\ ~is_back_from_failure(entries)
    /\ (op = "is_new_error" /\ ret) => ~is_back_from_failure(entries)
    /\ (op = "is_back_from_failure" /\ ret) => ~is_new_error(entries)
    /\ (op \in {"is_new_error", "is_back_from_failure"}
          /\ LastTwoAlike(entries)) => ~ret

\* Witness of C35: is_new_error has returned false on a log of three
\* entries that are a success followed by two failures.
C35_Witness ==
    /\ op = "is_new_error"
    /\ ~ret
    /\ Len(entries) = 3
    /\ entries[1].result.ok
    /\ ~entries[2].result.ok
    /\ ~entries[3].result.ok

\* The entries of log s with their tags left out.
Untagged(s) ==
    [i \in 1..Len(s) |->
        [result |-> s[i].result, timestamp |-> s[i].timestamp,
         command |-> s[i].command]]

\* C36: recreate_tags changes nothing but tags and membership: the
\* entries it keeps are entries of the log before with their timestamp,
\* outcome and command text, in the order they were in; and rotate leaves
\* the tag of every entry it keeps, the oldest of each run, as it was.
C36_RecreateTagsChangesOnlyTagsRotateKeepsTags ==
    /\ op = "recreate_tags" =>
         /\ SubSeqOf(Untagged(entries), Untagged(before))
         /\ Len(entries) <= Len(before)
    /\ op = "rotate" =>
         \A i \in 1..Len(before) :
            RunStart(before, i) =>
               entries[RunOf(before, i)].tag = before[i].tag

\* Witness of C36: recreate_tags has dropped the first entry of a log of
\* three and changed the tags of the two others, which are a failure and a
\* success recorded with different command texts.
C36_Witness ==
    /\ op = "recreate_tags"
    /\ Len(before) = 3
    /\ Len(entries) = 2
    /\ Untagged(entries) = Untagged(Tail(before))
    /\ entries[1].tag # before[2].tag
    /\ entries[2].tag # before[3].tag
    /\ ~entries[1].result.ok
    /\ entries[2].result.ok
    /\ entries[1].command # entries[2].command

\* C37: the form send_notification posts holds a message of at most 1024
\* characters and a title of at most 255 characters, each the beginning
\* of the formatted text; a text within its limit is posted unchanged.
C37_PostedTextsAreBeginningsWithinLimits ==
    form # <<>> =>
        /\ Len(form.message) <= 1024
        /\ Len(form.title) <= 255
        /\ IsPrefix(form.message, notification.details)
        /\ IsPrefix(form.title, notification.title)
        /\ Len(notification.details) <= 1024 =>
             form.message = notification.details
        /\ Len(notification.title) <= 255 =>
             form.title = notification.title

====
